---------------------------- MODULE Spec2Model ----------------------------
(***************************************************************************)
(* LittleLotus: the client-side playback engine (hooks/useAudioPlayer).    *)
(*                                                                         *)
(* One instance of the useAudioPlayer hook is modelled together with the   *)
(* parts of the host it talks to: the audio clock                          *)
(* (audioContext.currentTime), the audio nodes it creates and the list of  *)
(* pending requestAnimationFrame callbacks.                                *)
(*                                                                         *)
(* Time is in seconds.  React state (isPlaying, progress, duration) is     *)
(* modelled as committed when the handler that set it returns: the hook's  *)
(* callbacks are event handlers and animation-frame callbacks, and React   *)
(* re-renders before the next one is dispatched.  When a handler calls a   *)
(* setter twice, the last value wins (updates of one handler are batched). *)
(***************************************************************************)
EXTENDS Integers, FiniteSets, Sequences, TLC

\* ------------------------------------------------------------------ bounds

\* The audio clock advances in steps of ClockStep seconds, MaxAdvances times.
ClockStep == 10
MaxAdvances == 3

MaxClock == ClockStep * MaxAdvances

\* buffer.duration of the decoded voice buffers handed to the hook.
Durations == {20, 30}

\* The values setVolume() is called with, in percent of full volume
\* (the hook's volume runs from 0.0 to 1.0 and starts at 1): the listener
\* turns the volume down to one half.
Volumes == {50}

\* The arguments seek() is called with: the +-10 s skip buttons of the
\* player, and two skips past either end of the track.
SeekDeltas == {-1000, -10, 10, 1000}

\* services/ambience: its clock runs up to MaxAmbTime ticks in steps drawn
\* from AmbSteps; the controller's stop() is called at most MaxStops times.
AmbSteps == {5, 6}
MaxAmbTime == 30

MaxStops == 2

\* renderSessionToWav: the voice buffers it is given (their durations in
\* ticks of 0.1 s and their sample rates in Hz) and the two volumes, in
\* percent.
VoiceTicks == {3, 26, 100}
SampleRates == {24000, 44100}
MixVolumes == {50, 100}

\* hooks/useLiveSession: the clock runs up to MaxLiveTime seconds; at most
\* MaxChunks response chunks arrive, with durations drawn from
\* ChunkDurations; stopAllAudio is provoked at most MaxFlushes times by the
\* user and the service (once more by the closing of the connection).
MaxLiveTime == 2

MaxChunks == 2
MaxFlushes == 1

ChunkDurations == {2}

\* The waveform codec: buffers of up to MaxChannels channels and MaxFrames
\* frames, MaxSamples samples in all, with samples drawn from SampleNums, in units of 1 / (32767 *
\* 32768): -1, -1/65534, 0, a value just below 32766.5 / 32767, 1 and 1.25.
MaxChannels == 2
MaxFrames == 2
MaxSamples == 4
SampleNums == {-1073709056, -16384, 0, 1073692671, 1073709056, 1342136320}

\* The application: at most MaxSessions sessions are generated.
MaxSessions == 2

\* The video service: what a request takes to be answered, and how late the
\* 5 s timer of a poll fires, in ms.
Latencies == {0, 2500}
TimerLate == {0, 1}

\* --------------------------------------------------------------- constants

\* Doubles are computed on natural numbers of any size, kept as sequences of
\* digits in base 2^LimbBits; a double has MantissaBits binary digits, and a
\* quotient is computed with GuardLimbs extra digits before it is rounded.
LimbBits == 15
MantissaBits == 53
GuardLimbs == 5

NoBuffer == -1     \* the hook's optional `buffer` argument is undefined
Null == 0          \* a ref holding null; animationFrameRef's initial 0
FullVolume == 100  \* useState(1): the initial volume, in percent
VolumeTimeConstant == 50   \* setTargetAtTime(..., 0.05), in milliseconds
NoTarget == -1     \* a gain on which setTargetAtTime was not called

\* services/ambience.  Its times are in ticks of 0.1 s, its gains in
\* millionths, so that every ramp below is exact on the grid.
FadeInTicks == 20      \* linearRampToValueAtTime(originalGain, time + 2)
FadeOutTicks == 10     \* linearRampToValueAtTime(0, stopTime + 1)
TeardownTicks == 11    \* setTimeout(..., 1100)
UnitGain == 1000000    \* the default value of a GainNode's gain, 1.0
Destination == 0       \* the `destination` argument as a connection target
BusGainParam == -1     \* gain.gain of the bus gain as a connection target
NotCalled == "NotCalled"
Int16Max == 32767      \* the encoder's scale: round(clamp(sample) * 32767)
PcmDivisor == 32768    \* decodeAudioData: dataInt16[...] / 32768.0
MaxWaitMs == 60000     \* generateMeditationVideo: MAX_WAIT_MS
PollMs == 5000         \* generateMeditationVideo: setTimeout(resolve, 5000)
WavHeaderBytes == 44   \* the canonical header of the container
BitsPerSample == 16
TicksPerSecond == 10   \* the tick of this model's ambience and render times
TailTicks == 20        \* voiceBuffer.duration + 2
TailSeconds == 2
RenderChannels == 2    \* new OfflineAudioContext(2, ...)

VARIABLES
  buffer,             \* NoBuffer, or the duration of the AudioBuffer passed in
  currentTime,        \* audioContext.currentTime
  mounted,            \* the component owning the hook is mounted
  isPlaying,          \* useState(false)
  progress,           \* useState(0)
  duration,           \* useState(0), set from buffer.duration by an effect
  volume,             \* useState(1), in percent
  sourceRef,          \* id of the AudioBufferSourceNode held, or Null
  gainNodeRef,        \* id of the GainNode held, or Null
  startTimeRef,       \* clock value when the current play interval started
  pauseTimeRef,       \* offset into the buffer at the interval start / pause
  animationFrameRef,  \* id returned by the last requestAnimationFrame, or 0
  sources,            \* the AudioBufferSourceNodes that still exist
  gains,              \* the GainNodes that still exist
  frames,             \* pending animation-frame callbacks
  threw,              \* an exception escaped from a handler of the hook
  op                  \* history: the operation that produced this state

\* services/ambience: one call of playAmbience and the controller it returns.
VARIABLES
  ambTime,            \* ctx.currentTime of the context passed in, in ticks
  ambGenre,           \* the genre playAmbience was called with, or NotCalled
  ambGraph,           \* every audio node the call created
  ambNodes,           \* the `nodes` array: ids in the order they were pushed
  ambGain,            \* gain.gain of the bus gain: value and automation events
  ambTimers,          \* pending setTimeout callbacks of stop(): their due times
  ambLog              \* history: start time, stop() times, callbacks run

\* services/ambience: one call of renderSessionToWav.
VARIABLES
  rndIn,              \* the arguments: voice buffer, genre, the two volumes
  rndPhase,           \* "idle", "rendering" (awaiting startRendering), "rendered"
  rndCtx,             \* the OfflineAudioContext: channels, length, sampleRate
  rndGraph,           \* the audio nodes created in the offline context
  rndLevels,          \* gain.value of voiceGain and musicMasterGain, by node id
  rndBus,             \* gain.gain of the ambience's bus gain, as ambGain
  rndOut              \* the rendered buffer handed to audioBufferToWav

\* hooks/useLiveSession: one call of connect(), the session it opens and
\* the playback queue of the responses.
VARIABLES
  liveTime,           \* ctx.currentTime of the session's audio context
  connectPhase,       \* how far connect() got: "idle", "awaitMic", ...
  streamRef,          \* Null or the microphone stream held
  inputSourceRef,     \* Null or the MediaStreamAudioSourceNode held
  processorRef,       \* Null or the ScriptProcessorNode held
  sessionRef,         \* Null or the promise of the session
  liveHost,           \* the microphone and the capture nodes, and how often
                      \* each resource was released
  isConnected,        \* useState(false), true once the session is open
  isTalking,          \* useState(false): the model is talking
  nextStartTimeRef,   \* when the next response chunk may start
  sourcesRef,         \* ids of the sources in the hook's Set
  liveNodes,          \* every response source created, with its schedule
  livePending,        \* messages whose audio is being decoded, oldest first
  liveSession,        \* the service connection: "none", "opening", "open",
                      \* "closing", "closed"
  liveLog             \* history: the chunks scheduled, the stopAllAudio calls

\* utils/audio: one buffer through audioBufferToWav and a 16-bit PCM decoder.
VARIABLES
  cdcIn,              \* the buffer: channels, frames, samples per channel
  cdcScale,           \* the decoder's divisor
  cdcPhase,           \* "idle", "encoded", "decoded"
  cdcWav,             \* the encoded file: header fields and 16-bit samples
  cdcOut              \* the decoded buffer

\* AppContext, Dashboard, SessionBuilder and useSessionGenerator.
VARIABLES
  hostAudio,          \* the constructors the host provides
  appHistory,         \* whether a session without audio was loaded from storage
  audioContext,       \* AppContext state: Null or the context
  appListening,       \* whether handleInteraction is registered on window
  appAlert,           \* the alert() box on screen, or NoAlert
  appConsole,         \* the messages passed to console.error
  sessions,           \* the number of sessions that carry an audio buffer
  activeSession,      \* Null or the session handed to the player
  genPhase,           \* the awaited step of generateSession, or "idle"
  loading,            \* useSessionGenerator state
  status,             \* useSessionGenerator state
  isMounted,          \* useSessionGenerator's isMounted.current
  genCaller,          \* who awaits the running generateSession
  genResult           \* how the last generateSession call settled

\* services/geminiService: one call of generateMeditationVideo.
VARIABLES
  vidPhase,           \* "idle", "starting", "sleeping", "polling", or settled
  vidElapsed,         \* Date.now() - startTime, in ms
  vidOperation,       \* the operation as last reported by the service
  vidPolls,           \* the getVideosOperation calls answered
  vidResult           \* the value returned or the error raised

playerVars == <<buffer, currentTime, mounted, isPlaying, progress, duration,
                volume, sourceRef, gainNodeRef, startTimeRef, pauseTimeRef,
                animationFrameRef, sources, gains, frames, threw, op>>

ambVars == <<ambTime, ambGenre, ambGraph, ambNodes, ambGain, ambTimers, ambLog>>

rndVars == <<rndIn, rndPhase, rndCtx, rndGraph, rndLevels, rndBus, rndOut>>

cdcVars == <<cdcIn, cdcScale, cdcPhase, cdcWav, cdcOut>>

appVars == <<hostAudio, appHistory, audioContext, appListening, appAlert,
             appConsole, sessions, activeSession, genPhase, loading, status,
             isMounted, genCaller, genResult>>

vidVars == <<vidPhase, vidElapsed, vidOperation, vidPolls, vidResult>>

liveVars == <<liveTime, connectPhase, streamRef, inputSourceRef, processorRef,
              sessionRef, liveHost, isConnected, isTalking, nextStartTimeRef,
              sourcesRef, liveNodes, livePending, liveSession, liveLog>>

\* The variables of the other parts of the application, as seen from the
\* hook, from playAmbience, from renderSessionToWav and from the live session.
others == <<ambVars, rndVars, liveVars, cdcVars, appVars, vidVars>>
ambOthers == <<playerVars, rndVars, liveVars, cdcVars, appVars, vidVars>>
rndOthers == <<playerVars, ambVars, liveVars, cdcVars, appVars, vidVars>>
liveOthers == <<playerVars, ambVars, rndVars, cdcVars, appVars, vidVars>>
cdcOthers == <<playerVars, ambVars, rndVars, liveVars, appVars, vidVars>>
appOthers == <<playerVars, ambVars, rndVars, liveVars, cdcVars, vidVars>>
vidOthers == <<playerVars, ambVars, rndVars, liveVars, cdcVars, appVars>>

vars == <<playerVars, ambVars, rndVars, liveVars, cdcVars, appVars, vidVars>>

\* ----------------------------------------------------------------- helpers

Min(a, b) == IF a < b THEN a ELSE b
Max(a, b) == IF a > b THEN a ELSE b

\* The hook's mutable state as one value, so that a handler is a function
\* from the state before it to the state after it.
Cur ==
  [isPlaying |-> isPlaying, progress |-> progress, duration |-> duration,
   volume |-> volume, threw |-> threw,
   sourceRef |-> sourceRef, gainNodeRef |-> gainNodeRef,
   startTimeRef |-> startTimeRef, pauseTimeRef |-> pauseTimeRef,
   animationFrameRef |-> animationFrameRef,
   sources |-> sources, gains |-> gains, frames |-> frames]

\* A node id / callback id not in use.  The host hands out ids that are never
\* equal to a live one; which number comes back is not observable by the hook.
FreshId(used) == CHOOSE i \in 1..(Cardinality(used) + 1) : i \notin used

\* buffer.duration || 0, for the buffer captured by playAudio's closure.
trackDuration == IF buffer = NoBuffer THEN 0 ELSE buffer

\* ------------------------------------------------------- host: audio nodes

\* source.stop(); source.disconnect() inside one try block: stop() throws
\* InvalidStateError on a source that was never started, and then the
\* disconnect is skipped.
StopAndDisconnect(S, id) ==
  { IF n.id = id /\ n.started
      THEN [n EXCEPT !.stopped = TRUE, !.to = Null]
      ELSE n : n \in S }

\* gainNode.disconnect()
DisconnectGain(G, id) ==
  { IF g.id = id THEN [g EXCEPT !.toDestination = FALSE] ELSE g : g \in G }

\* cancelAnimationFrame(id): drops the pending callback with that id, if any.
cancelAnimationFrame(F, id) == { f \in F : f.id # id }

\* Source nodes whose signal reaches audioContext.destination.
AttachedSources(S, G) ==
  { n \in S : n.to # Null /\ \E g \in G : g.id = n.to /\ g.toDestination }

\* Nodes the host still keeps: everything referenced by the hook, every
\* source that was not both stopped and disconnected, every gain that is
\* connected to the destination or fed by a kept source.
Collect(s) ==
  LET keptS == { n \in s.sources :
                   n.id = s.sourceRef \/ ~n.stopped \/ n.to # Null }
      keptG == { g \in s.gains :
                   \/ g.id = s.gainNodeRef
                   \/ g.toDestination
                   \/ \E n \in keptS : n.to = g.id }
  IN [s EXCEPT !.sources = keptS, !.gains = keptG]

\* ---------------------------------------------------------------- the hook

\* Faulty variant of stopAudio: the pending animation frame is not cancelled.
stopAudioNoCancel(s) ==
  LET s1 == IF s.sourceRef # Null
              THEN [s EXCEPT !.sources = StopAndDisconnect(@, s.sourceRef),
                             !.sourceRef = Null]
              ELSE s
  IN IF s1.gainNodeRef # Null
       THEN [s1 EXCEPT !.gains = DisconnectGain(@, s1.gainNodeRef),
                       !.gainNodeRef = Null]
       ELSE s1

\* Faulty variant of stopAudio: the gain reference is dropped without
\* disconnecting the node.
stopAudioKeepsGain(s) ==
  LET s1 == IF s.sourceRef # Null
              THEN [s EXCEPT !.sources = StopAndDisconnect(@, s.sourceRef),
                             !.sourceRef = Null]
              ELSE s
      s2 == [s1 EXCEPT !.gainNodeRef = Null]
  IN IF s2.animationFrameRef # 0
       THEN [s2 EXCEPT !.frames = cancelAnimationFrame(@, s2.animationFrameRef)]
       ELSE s2

\* stopAudio: stop and disconnect the source, disconnect the gain, cancel the
\* pending animation frame.
stopAudio(s) ==
  LET s1 == IF s.sourceRef # Null
              THEN [s EXCEPT !.sources = StopAndDisconnect(@, s.sourceRef),
                             !.sourceRef = Null]
              ELSE s
      s2 == IF s1.gainNodeRef # Null
              THEN [s1 EXCEPT !.gains = DisconnectGain(@, s1.gainNodeRef),
                              !.gainNodeRef = Null]
              ELSE s1
  IN IF s2.animationFrameRef # 0
       THEN [s2 EXCEPT !.frames = cancelAnimationFrame(@, s2.animationFrameRef)]
       ELSE s2

\* requestAnimationFrame(loop) for the loop of the graph whose source is
\* `graph`; the id is stored in animationFrameRef.
requestLoop(s, graph) ==
  LET id == FreshId({ f.id : f \in s.frames })
  IN [s EXCEPT !.frames = @ \cup {[id |-> id, graph |-> graph]},
               !.animationFrameRef = id]

\* The body of playAudio after its guard and its call of stopAudio: create
\* and wire source and gain, set the refs, start the source at `offset`,
\* setIsPlaying(true), request the first frame of the progress loop.
buildGraph(t, offset) ==
  LET src == FreshId({ n.id : n \in t.sources } \cup { f.graph : f \in t.frames })
      gn == FreshId({ g.id : g \in t.gains })
      source == [id |-> src, to |-> gn, started |-> TRUE, stopped |-> FALSE,
                 offset |-> offset, when |-> currentTime]
      gainNode == [id |-> gn, toDestination |-> TRUE, value |-> t.volume,
                   target |-> NoTarget, timeConstant |-> 0]
      u == [t EXCEPT !.sources = @ \cup {source},
                     !.gains = @ \cup {gainNode},
                     !.sourceRef = src,
                     !.gainNodeRef = gn,
                     !.startTimeRef = currentTime,
                     !.pauseTimeRef = offset]
  IN IF offset < 0
       \* source.start(0, offset) throws RangeError: the rest is skipped.
       THEN [u EXCEPT !.sources = (@ \ {source}) \cup
                                   {[source EXCEPT !.started = FALSE]},
                      !.threw = TRUE]
       ELSE requestLoop([u EXCEPT !.isPlaying = TRUE], src)

\* Faulty variant of the volume effect: the gain is stepped to the new
\* volume (setValueAtTime) instead of being smoothed towards it.
volumeEffectStepped(s) ==
  IF s.gainNodeRef # Null
    THEN [s EXCEPT !.gains =
            { IF g.id = s.gainNodeRef THEN [g EXCEPT !.value = s.volume] ELSE g
              : g \in @ }]
    ELSE s

\* The effect on [volume, audioContext]: if a gain node is held,
\* gain.setTargetAtTime(volume, audioContext.currentTime, 0.05): from now
\* on the gain approaches `volume` exponentially; its value is not stepped.
volumeEffect(s) ==
  IF s.gainNodeRef # Null
    THEN [s EXCEPT !.gains =
            { IF g.id = s.gainNodeRef
                THEN [g EXCEPT !.target = s.volume,
                               !.timeConstant = VolumeTimeConstant]
                ELSE g
              : g \in @ }]
    ELSE s

\* setVolume(v) and the re-render it causes: the effect runs only when the
\* volume changed.
setVolume(s, v) ==
  IF v = s.volume THEN s ELSE volumeEffect([s EXCEPT !.volume = v])

\* Faulty variant of playAudio: the previous graph is not torn down first.
playAudioNoStop(s, offset) ==
  IF buffer = NoBuffer THEN s ELSE buildGraph(s, offset)

\* Faulty variant of playAudio: the `if (!buffer) return` guard is missing.
playAudioUnguarded(s, offset) == buildGraph(stopAudio(s), offset)

\* playAudio(offset)
playAudio(s, offset) ==
  IF buffer = NoBuffer THEN s ELSE buildGraph(stopAudio(s), offset)

\* The elapsed position computed from the clock and the two refs.
elapsedOf(s) == currentTime - s.startTimeRef + s.pauseTimeRef

\* Faulty variant of loop: the stored offset is not reset at the end.
loopKeepsOffset(s, f) ==
  LET t == [s EXCEPT !.frames = @ \ {f}]
      elapsed == elapsedOf(t)
      u == [t EXCEPT !.progress = Min(elapsed, trackDuration)]
  IN IF elapsed < trackDuration
       THEN requestLoop(u, f.graph)
       ELSE [u EXCEPT !.isPlaying = FALSE, !.progress = 0]

\* Faulty variant of loop: at the end it only stops rescheduling itself.
loopStopsSilently(s, f) ==
  LET t == [s EXCEPT !.frames = @ \ {f}]
      elapsed == elapsedOf(t)
      u == [t EXCEPT !.progress = Min(elapsed, trackDuration)]
  IN IF elapsed < trackDuration THEN requestLoop(u, f.graph) ELSE u

\* One run of playAudio's `loop` callback, delivered for pending frame f.
loop(s, f) ==
  LET t == [s EXCEPT !.frames = @ \ {f}]
      elapsed == elapsedOf(t)
      u == [t EXCEPT !.progress = Min(elapsed, trackDuration)]
  IN IF elapsed < trackDuration
       THEN requestLoop(u, f.graph)
       ELSE [u EXCEPT !.isPlaying = FALSE,
                      !.pauseTimeRef = 0,
                      !.progress = 0]

\* Faulty variant of togglePlay: `=` instead of `+=` when pausing.
togglePlayOverwrite(s) ==
  IF s.isPlaying
    THEN LET t == stopAudio(s)
         IN [t EXCEPT !.pauseTimeRef = currentTime - t.startTimeRef,
                      !.isPlaying = FALSE]
    ELSE playAudio(s, s.pauseTimeRef)

\* togglePlay()
togglePlay(s) ==
  IF s.isPlaying
    THEN LET t == stopAudio(s)
         IN [t EXCEPT !.pauseTimeRef = @ + (currentTime - t.startTimeRef),
                      !.isPlaying = FALSE]
    ELSE playAudio(s, s.pauseTimeRef)

\* Faulty variant of seek: the new position is not limited to the duration.
seekNoUpperClamp(s, seconds) ==
  LET currentPos == IF s.isPlaying THEN elapsedOf(s) ELSE s.pauseTimeRef
      newPos == Max(0, currentPos + seconds)
  IN IF s.isPlaying
       THEN playAudio(s, newPos)
       ELSE [s EXCEPT !.pauseTimeRef = newPos, !.progress = newPos]

\* Faulty variant of seek: the time played since the interval started is
\* ignored while playing.
seekFromStoredOffset(s, seconds) ==
  LET currentPos == s.pauseTimeRef
      newPos == Max(0, Min(currentPos + seconds, s.duration))
  IN IF s.isPlaying
       THEN playAudio(s, newPos)
       ELSE [s EXCEPT !.pauseTimeRef = newPos, !.progress = newPos]

\* seek(seconds)
seek(s, seconds) ==
  LET currentPos == IF s.isPlaying THEN elapsedOf(s) ELSE s.pauseTimeRef
      newPos == Max(0, Min(currentPos + seconds, s.duration))
  IN IF s.isPlaying
       THEN playAudio(s, newPos)
       ELSE [s EXCEPT !.pauseTimeRef = newPos, !.progress = newPos]

\* Faulty variant of restart: playback is started whatever the state was.
restartAlwaysPlays(s) == playAudio(s, 0)

\* restart()
restart(s) ==
  IF s.isPlaying
    THEN playAudio(s, 0)
    ELSE [s EXCEPT !.pauseTimeRef = 0, !.progress = 0]

\* ------------------------------------------------------------- rest states

\* The state of services/ambience before playAmbience is called.
AmbRest ==
  /\ ambTime = 0
  /\ ambGenre = NotCalled
  /\ ambGraph = {}
  /\ ambNodes = <<>>
  /\ ambGain = [node |-> Null, value |-> UnitGain, events |-> <<>>]
  /\ ambTimers = <<>>
  /\ ambLog = [start |-> 0, stops |-> <<>>, fired |-> 0]

\* The state of renderSessionToWav before it is called (with some arguments).
NoCtx == [numberOfChannels |-> 0, length |-> 0, sampleRate |-> 0]
NoBus == [node |-> Null, value |-> UnitGain, events |-> <<>>]
RenderStart ==
  /\ rndPhase = "idle"
  /\ rndCtx = NoCtx
  /\ rndGraph = {}
  /\ rndLevels = {}
  /\ rndBus = NoBus
  /\ rndOut = NoCtx
RenderRest ==
  /\ rndIn = [voiceTicks |-> 0, sampleRate |-> 0, genre |-> "NoMusic",
              musicVolume |-> 0, voiceVolume |-> 0]
  /\ RenderStart

\* The live session's playback queue when nothing was received yet.
LiveIdle ==
  /\ liveTime = 0
  /\ isTalking = FALSE
  /\ nextStartTimeRef = 0
  /\ sourcesRef = {}
  /\ liveNodes = {}
  /\ livePending = <<>>
  /\ connectPhase = "idle"
  /\ streamRef = Null
  /\ inputSourceRef = Null
  /\ processorRef = Null
  /\ sessionRef = Null
  /\ liveHost = [mic |-> "none", inputSource |-> "none", processor |-> "none",
                 micStops |-> 0, inputSourceDisconnects |-> 0,
                 processorDisconnects |-> 0, closes |-> 0]
  /\ liveLog = [sched |-> <<>>, flushes |-> 0, interrupts |-> 0, late |-> {},
                cleanups |-> 0, disconnected |-> FALSE]

\* The application right after AppProvider mounted on a host with the
\* standard constructor: no context yet, the interaction listeners registered.
NoAlert == "NoAlert"
AppStart ==
  /\ audioContext = Null
  /\ appListening = TRUE
  /\ appAlert = NoAlert
  /\ appConsole = {}
  /\ sessions = 0
  /\ activeSession = Null
  /\ genPhase = "idle"
  /\ loading = FALSE
  /\ status = ""
  /\ isMounted = TRUE
  /\ genCaller = "none"
  /\ genResult = "none"
AppRest == hostAudio = {"AudioContext"} /\ appHistory = FALSE /\ AppStart

\* The codec before a buffer is handed to it.
NoWav == [headerBytes |-> 0, numChannels |-> 0, sampleRate |-> 0,
          bitsPerSample |-> 0, byteRate |-> 0, dataBytes |-> 0,
          samples |-> <<>>]
EmptyBuffer == [channels |-> 0, frames |-> 0, sampleRate |-> 0, data |-> <<>>]
CodecStart == cdcPhase = "idle" /\ cdcWav = NoWav /\ cdcOut = EmptyBuffer
CodecRest == cdcIn = EmptyBuffer /\ cdcScale = PcmDivisor /\ CodecStart

\* generateMeditationVideo before it is called.
NoOperation == [done |-> FALSE, uri |-> FALSE]
VideoRest ==
  /\ vidPhase = "idle"
  /\ vidElapsed = 0
  /\ vidOperation = NoOperation
  /\ vidPolls = 0
  /\ vidResult = "none"

\* The hook before connect().
LiveRest == LiveIdle /\ isConnected = FALSE /\ liveSession = "none"

\* ----------------------------------------------------------------- actions

\* The state after a handler ran: its result, minus the nodes the host
\* dropped, with the operation recorded.
Commit(s, name, arg) ==
  LET c == Collect(s)
  IN /\ isPlaying' = c.isPlaying
     /\ progress' = c.progress
     /\ duration' = c.duration
     /\ volume' = c.volume
     /\ threw' = c.threw
     /\ sourceRef' = c.sourceRef
     /\ gainNodeRef' = c.gainNodeRef
     /\ startTimeRef' = c.startTimeRef
     /\ pauseTimeRef' = c.pauseTimeRef
     /\ animationFrameRef' = c.animationFrameRef
     /\ sources' = c.sources
     /\ gains' = c.gains
     /\ frames' = c.frames
     /\ op' = [name |-> name, arg |-> arg, wasPlaying |-> isPlaying,
               prev |-> op.name, prevArg |-> op.arg]

\* The hook after its first render and its effects, whatever buffer it was
\* given: duration was set from the buffer.
PlayerStart ==
  /\ currentTime = 0
  /\ mounted = TRUE
  /\ isPlaying = FALSE
  /\ progress = 0
  /\ duration = (IF buffer = NoBuffer THEN 0 ELSE buffer)
  /\ volume = FullVolume
  /\ threw = FALSE
  /\ sourceRef = Null
  /\ gainNodeRef = Null
  /\ startTimeRef = 0
  /\ pauseTimeRef = 0
  /\ animationFrameRef = 0
  /\ sources = {}
  /\ gains = {}
  /\ frames = {}
  /\ op = [name |-> "init", arg |-> 0, wasPlaying |-> FALSE,
           prev |-> "init", prevArg |-> 0]

\* The hook of a player that was given no buffer: it stays as it is.
PlayerRest == buffer = NoBuffer /\ PlayerStart

Init ==
  /\ buffer \in {NoBuffer} \cup Durations
  /\ PlayerStart
  /\ AmbRest
  /\ RenderRest
  /\ LiveRest
  /\ CodecRest
  /\ AppRest
  /\ VideoRest

\* The audio hardware clock advances.
ClockAdvance ==
  /\ currentTime + ClockStep <= MaxClock
  /\ currentTime' = currentTime + ClockStep
  /\ op' = [name |-> "clock", arg |-> ClockStep, wasPlaying |-> isPlaying,
            prev |-> op.name, prevArg |-> op.arg]
  /\ UNCHANGED <<buffer, mounted, isPlaying, progress, duration, volume,
                 sourceRef, gainNodeRef, startTimeRef, pauseTimeRef,
                 animationFrameRef, sources, gains, frames, threw, others>>

TogglePlay ==
  /\ mounted
  /\ Commit(togglePlay(Cur), "togglePlay", 0)
  /\ UNCHANGED <<buffer, currentTime, mounted, others>>

Seek ==
  /\ mounted
  /\ \E seconds \in SeekDeltas : Commit(seek(Cur, seconds), "seek", seconds)
  /\ UNCHANGED <<buffer, currentTime, mounted, others>>

Restart ==
  /\ mounted
  /\ Commit(restart(Cur), "restart", 0)
  /\ UNCHANGED <<buffer, currentTime, mounted, others>>

\* The host delivers a pending animation-frame callback.
Loop ==
  /\ \E f \in frames : Commit(loop(Cur, f), "loop", f.graph)
  /\ UNCHANGED <<buffer, currentTime, mounted, others>>

\* The effect cleanup of the hook: () => stopAudio().
Unmount ==
  /\ mounted
  /\ mounted' = FALSE
  /\ Commit(stopAudio(Cur), "unmount", 0)
  /\ UNCHANGED <<buffer, currentTime, others>>

\* The volume slider: setVolume(v), then the volume effect.
SetVolume ==
  /\ mounted
  /\ \E v \in Volumes : Commit(setVolume(Cur, v), "setVolume", v)
  /\ UNCHANGED <<buffer, currentTime, mounted, others>>

Next ==
  \/ ClockAdvance
  \/ TogglePlay
  \/ Seek
  \/ Restart
  \/ Loop
  \/ Unmount
  \/ SetVolume

Spec == Init /\ [][Next]_vars

\* ---------------------------------------------------------------- claims

\* The source node the hook holds after a step, and the limits of a position.
SourceOf(S, id) == CHOOSE n \in S : n.id = id
Clamp(x, d) == IF x < 0 THEN 0 ELSE IF x > d THEN d ELSE x

\* The graph held in state (S, G, ref) is exactly one source, started now at
\* `offset`, running and wired through its gain to the destination.
FreshGraphAt(S, G, ref, gref, offset) ==
  /\ ref # Null
  /\ gref # Null
  /\ S = { SourceOf(S, ref) }
  /\ G = { g \in G : g.id = gref }
  /\ LET n == SourceOf(S, ref)
     IN /\ n.offset = offset
        /\ n.when = currentTime
        /\ n.started /\ ~n.stopped
        /\ n.to = gref
        /\ AttachedSources(S, G) = {n}

\* C1: whatever togglePlay, seek and restart calls, clock advances and
\* progress ticks happened, the published progress is within [0, duration].
C1_ProgressWithinDuration == 0 <= progress /\ progress <= duration

\* C1 witness: a paused seek past the end published exactly the duration, at
\* an interior point of a run that played, ticked and paused before.
C1_Witness ==
  /\ op.name = "seek" /\ op.arg = 1000 /\ ~op.wasPlaying
  /\ progress = duration /\ duration > 0
  /\ currentTime > 0

\* C2 (as claimed): right after restart() the published progress is 0,
\* whether the player was idle, playing or paused.
C2_RestartPublishesZero == op.name = "restart" => progress = 0

\* C3 (as claimed): with a 30 s buffer, seek(-1000) publishes 0 and
\* seek(+1000) publishes 30 from every transport state, and the progress
\* tick that follows leaves these values.
C3_SeekEndsPublished ==
  buffer = 30 =>
    /\ (op.name = "seek" /\ op.arg = -1000) => progress = 0
    /\ (op.name = "seek" /\ op.arg = 1000) => progress = 30
    /\ (op.name = "loop" /\ op.prev = "seek" /\ op.prevArg = -1000)
         => progress = 0
    /\ (op.name = "loop" /\ op.prev = "seek" /\ op.prevArg = 1000)
         => progress = 30

\* C4: togglePlay while playing stores offset + (clock - interval start) and
\* stops; togglePlay while not playing starts a source at exactly the stored
\* offset, which the clock advancing during the pause does not change.
C4_PauseCommitsResumeContinues ==
  [][ /\ (op'.name = "togglePlay" /\ isPlaying) =>
           /\ ~isPlaying'
           /\ pauseTimeRef' = pauseTimeRef + (currentTime - startTimeRef)
           /\ sources' = {} /\ frames' = {}
      /\ (op'.name = "togglePlay" /\ ~isPlaying /\ buffer # NoBuffer) =>
           /\ isPlaying'
           /\ pauseTimeRef' = pauseTimeRef
           /\ startTimeRef' = currentTime
           /\ FreshGraphAt(sources', gains', sourceRef', gainNodeRef',
                           pauseTimeRef)
      /\ (op'.name = "clock" /\ ~isPlaying) => pauseTimeRef' = pauseTimeRef
    ]_vars

\* C4 witness: playback was resumed, after the clock advanced during the
\* pause, from a stored offset inside the track.
C4_Witness ==
  /\ op.name = "togglePlay" /\ ~op.wasPlaying /\ op.prev = "clock"
  /\ isPlaying
  /\ pauseTimeRef > 0 /\ pauseTimeRef < duration
  /\ startTimeRef = currentTime /\ currentTime >= 2 * ClockStep

\* C5: a progress tick that computes elapsed >= duration ends playback:
\* isPlaying false, stored offset 0, progress 0, no frame requested; the
\* togglePlay that follows starts a source at offset 0.
C5_FinishResets ==
  [][ /\ (op'.name = "loop" /\ elapsedOf(Cur) >= trackDuration) =>
           /\ ~isPlaying'
           /\ pauseTimeRef' = 0
           /\ progress' = 0
           /\ frames' = {}
      /\ (op.name = "loop" /\ ~isPlaying /\ op'.name = "togglePlay") =>
           /\ isPlaying'
           /\ pauseTimeRef' = 0
           /\ FreshGraphAt(sources', gains', sourceRef', gainNodeRef', 0)
    ]_vars

\* C5 witness: playing again from 0 right after a tick finished the track.
C5_Witness ==
  /\ op.name = "togglePlay" /\ op.prev = "loop" /\ ~op.wasPlaying
  /\ isPlaying /\ pauseTimeRef = 0 /\ currentTime >= trackDuration

\* C6: restart keeps isPlaying; while playing it replaces the graph by a new
\* one started at offset 0, otherwise it builds nothing and stores offset 0.
C6_RestartKeepsPlayState ==
  [][ op'.name = "restart" =>
        /\ isPlaying' = isPlaying
        /\ pauseTimeRef' = 0
        /\ IF isPlaying
             THEN /\ FreshGraphAt(sources', gains', sourceRef', gainNodeRef', 0)
                  /\ startTimeRef' = currentTime
                  /\ Cardinality(frames') = 1
             ELSE /\ sources' = sources /\ gains' = gains
                  /\ sourceRef' = sourceRef /\ gainNodeRef' = gainNodeRef
                  /\ frames' = frames
    ]_vars

\* C6 witness: restart while playing, some way into the track.
C6_Witness ==
  /\ op.name = "restart" /\ op.wasPlaying /\ isPlaying
  /\ op.prev = "loop" /\ progress > 0

\* C7: seek while not playing only stores and publishes the limited position;
\* seek while playing replaces the graph by one started at the limited
\* position computed from the elapsed time, and playback goes on.
C7_SeekFrame ==
  [][ op'.name = "seek" =>
        IF isPlaying
          THEN LET newPos == Clamp(elapsedOf(Cur) + op'.arg, duration)
               IN /\ isPlaying'
                  /\ pauseTimeRef' = newPos
                  /\ startTimeRef' = currentTime
                  /\ FreshGraphAt(sources', gains', sourceRef', gainNodeRef',
                                  newPos)
                  /\ Cardinality(frames') = 1
          ELSE LET newPos == Clamp(pauseTimeRef + op'.arg, duration)
               IN /\ ~isPlaying'
                  /\ pauseTimeRef' = newPos
                  /\ progress' = newPos
                  /\ sources' = sources /\ gains' = gains
                  /\ sourceRef' = sourceRef /\ gainNodeRef' = gainNodeRef
                  /\ frames' = frames
                  /\ startTimeRef' = startTimeRef
    ]_vars

\* C7 witness: a 10 s skip while playing, after the clock moved since the
\* interval started, landed inside the track.
C7_Witness ==
  /\ op.name = "seek" /\ op.arg = 10 /\ op.wasPlaying /\ op.prev = "clock"
  /\ isPlaying /\ pauseTimeRef = 2 * ClockStep /\ pauseTimeRef < duration

\* C8: at most one progress callback is pending, and it belongs to the graph
\* the hook holds now: its id is the one in animationFrameRef, its graph's
\* source is the running one in sourceRef, and the player is playing.
C8_NoStaleLoop ==
  /\ Cardinality(frames) <= 1
  /\ \A f \in frames :
       /\ f.id = animationFrameRef
       /\ f.graph = sourceRef
       /\ \E n \in sources : n.id = f.graph /\ ~n.stopped
       /\ isPlaying
       /\ mounted

\* C8 witness: a frame is pending right after a re-point replaced the graph
\* that had a frame pending.
C8_Witness ==
  /\ op.name = "restart" /\ op.wasPlaying /\ op.prev = "clock"
  /\ Cardinality(frames) = 1

\* C9: at most one source reaches the destination, and it is the one the
\* hook holds.
C9_OneAttachedSource ==
  /\ Cardinality(AttachedSources(sources, gains)) <= 1
  /\ \A n \in AttachedSources(sources, gains) : n.id = sourceRef
  /\ Cardinality(sources) <= 1
  /\ Cardinality(gains) <= 1

\* C9 witness: a seek while playing built a second graph in a row, and one
\* source is attached.
C9_Witness ==
  /\ op.name = "seek" /\ op.wasPlaying /\ op.prev = "seek"
  /\ Cardinality(AttachedSources(sources, gains)) = 1

\* C10: without a buffer the transport never leaves its initial state and no
\* node or callback exists.
C10_NoBufferNoOp ==
  buffer = NoBuffer =>
    /\ ~isPlaying
    /\ pauseTimeRef = 0 /\ progress = 0 /\ startTimeRef = 0
    /\ sourceRef = Null /\ gainNodeRef = Null /\ animationFrameRef = 0
    /\ sources = {} /\ gains = {} /\ frames = {}

\* C10 witness: togglePlay was called without a buffer, after a seek.
C10_Witness ==
  /\ buffer = NoBuffer
  /\ op.name = "togglePlay" /\ op.prev = "seek" /\ op.prevArg = 1000

\* The gain node the hook holds.
GainOf(G, id) == CHOOSE g \in G : g.id = id

\* C11: a volume change only retargets the gain node that is held: the gain
\* approaches the new volume with time constant 0.05 s and its value is not
\* stepped; the play state, the stored offset, the interval start, the graph
\* and the pending frames stay as they were.  A graph built by a later
\* handler starts with its gain at the volume current then.
C11_VolumeRetargetsOnly ==
  [][ /\ op'.name = "setVolume" =>
           /\ volume' = op'.arg
           /\ isPlaying' = isPlaying /\ progress' = progress
           /\ pauseTimeRef' = pauseTimeRef /\ startTimeRef' = startTimeRef
           /\ sourceRef' = sourceRef /\ gainNodeRef' = gainNodeRef
           /\ sources' = sources /\ frames' = frames
           /\ animationFrameRef' = animationFrameRef
           /\ gains' = { IF g.id = gainNodeRef /\ volume' # volume
                           THEN [g EXCEPT !.target = volume',
                                          !.timeConstant = VolumeTimeConstant]
                           ELSE g : g \in gains }
      /\ (op'.name \in {"togglePlay", "seek", "restart"} /\ isPlaying'
            /\ sources' # sources) =>
           /\ GainOf(gains', gainNodeRef').value = volume
           /\ GainOf(gains', gainNodeRef').target = NoTarget
    ]_vars

\* C11 witness: the volume was turned down during playback; the held gain
\* still has its old value and is heading for the new one.
C11_Witness ==
  /\ op.name = "setVolume" /\ op.wasPlaying /\ isPlaying /\ op.prev = "loop"
  /\ gainNodeRef # Null
  /\ GainOf(gains, gainNodeRef).value = FullVolume
  /\ GainOf(gains, gainNodeRef).target = volume
  /\ volume < FullVolume

\* C12: no handler of the hook lets an exception escape, and after every
\* handler that ran stopAudio (pause, unmount, and the handlers that rebuild
\* the graph) no node but the ones now held is left running or connected;
\* after pause and unmount no source and no gain is held at all.
C12_StopAudioNeverThrows ==
  [][ /\ ~threw'
      /\ (op'.name = "unmount" \/ (op'.name = "togglePlay" /\ isPlaying)) =>
           /\ sourceRef' = Null /\ gainNodeRef' = Null
           /\ AttachedSources(sources', gains') = {}
      /\ (op'.name \in {"unmount", "togglePlay"}
             \/ (op'.name \in {"seek", "restart"} /\ isPlaying)) =>
           /\ \A n \in sources' :
                 n.id # sourceRef' => n.stopped /\ n.to = Null
           /\ \A g \in gains' : g.id # gainNodeRef' => ~g.toDestination
    ]_vars

\* C12 witness: the component unmounts after the track played to its end, so
\* stopAudio ran on a source that had ended by itself; nothing is left.
C12_Witness ==
  /\ op.name = "unmount" /\ op.prev = "loop" /\ ~op.wasPlaying
  /\ currentTime >= trackDuration /\ trackDuration > 0
  /\ sourceRef = Null /\ gainNodeRef = Null
  /\ sources = {} /\ gains = {}

\* ------------------------------------------------------- services/ambience

Genres == {"TibetanBowls", "AmbientSynth", "NatureSounds", "LoFi", "NoMusic"}

\* gain.gain.value as the genre's case of the switch sets it.
GenreGain(genre) ==
  CASE genre = "TibetanBowls" -> 300000
    [] genre = "AmbientSynth" -> 200000
    [] genre = "NatureSounds" -> 150000
    [] genre = "LoFi" -> 250000
    [] OTHER -> UnitGain

\* The state one call of playAmbience works on, as one value.
AmbCur ==
  [time |-> ambTime, graph |-> ambGraph, nodes |-> ambNodes, gain |-> ambGain,
   timers |-> ambTimers, log |-> ambLog]

\* ctx.createX(): the new node gets the next id of the context's graph.
NewId(a) == Cardinality(a.graph) + 1
Node(id, kind, started, out) ==
  [id |-> id, kind |-> kind, started |-> started, stopped |-> FALSE,
   out |-> out]

\* The automation timeline of an AudioParam keeps its events ordered by time.
InsertEvent(evs, e) ==
  LET k == Cardinality({ i \in 1..Len(evs) : evs[i].time <= e.time })
  IN SubSeq(evs, 1, k) \o <<e>> \o SubSeq(evs, k + 1, Len(evs))

setValueAtTime(g, v, t) ==
  [g EXCEPT !.events = InsertEvent(@, [kind |-> "set", value |-> v, time |-> t])]
linearRampToValueAtTime(g, v, t) ==
  [g EXCEPT !.events = InsertEvent(@, [kind |-> "ramp", value |-> v, time |-> t])]
\* cancelScheduledValues(t) removes every event at or after t.
cancelScheduledValues(g, t) ==
  [g EXCEPT !.events = SelectSeq(@, LAMBDA e : e.time < t)]

\* The value the timeline of g gives the parameter at time t: the value of
\* the last event at or before t, or a point on the line towards the next
\* event when that one is a ramp; g.value when no event is at or before t.
ValueAt(g, t) ==
  LET evs == g.events
      k == Cardinality({ i \in 1..Len(evs) : evs[i].time <= t })
  IN IF k = 0 THEN g.value
     ELSE IF k < Len(evs) /\ evs[k + 1].kind = "ramp"
       THEN evs[k].value
              + ((evs[k + 1].value - evs[k].value) * (t - evs[k].time))
                  \div (evs[k + 1].time - evs[k].time)
       ELSE evs[k].value

\* Faulty variant of playOsc: only the oscillator is pushed to `nodes`.
playOscForgetsGain(a) ==
  LET osc == NewId(a)
      oscGain == osc + 1
  IN [a EXCEPT !.graph = @ \cup {Node(osc, "OscillatorNode", TRUE, {oscGain}),
                                 Node(oscGain, "GainNode", FALSE, {a.gain.node})},
               !.nodes = @ \o <<osc>>]

\* playOsc: oscillator -> oscGain -> bus gain; the oscillator is started and
\* both nodes are pushed to `nodes`.
playOsc(a) ==
  LET osc == NewId(a)
      oscGain == osc + 1
  IN [a EXCEPT !.graph = @ \cup {Node(osc, "OscillatorNode", TRUE, {oscGain}),
                                 Node(oscGain, "GainNode", FALSE, {a.gain.node})},
               !.nodes = @ \o <<osc, oscGain>>]

\* playNoise: looping buffer source -> filter -> noiseGain -> bus gain; the
\* source is started and the three nodes are pushed to `nodes`.
playNoise(a) ==
  LET bufferSrc == NewId(a)
      filter == bufferSrc + 1
      noiseGain == bufferSrc + 2
  IN [a EXCEPT !.graph = @ \cup
                 {Node(bufferSrc, "AudioBufferSourceNode", TRUE, {filter}),
                  Node(filter, "BiquadFilterNode", FALSE, {noiseGain}),
                  Node(noiseGain, "GainNode", FALSE, {a.gain.node})},
               !.nodes = @ \o <<bufferSrc, filter, noiseGain>>]
\* node.connect(x) / node.disconnect() on the node with this id.
SetOut(G, id, out) == { IF n.id = id THEN [n EXCEPT !.out = out] ELSE n : n \in G }

\* The switch on the genre: the bus gain's level and the genre's sources.
genreCase(a, genre, destination) ==
  LET level == [a EXCEPT !.gain.value = GenreGain(genre)]
  IN CASE genre = "TibetanBowls" ->
            LET b == playOsc(playOsc(playOsc(level)))
                lfo == NewId(b)
                lfoGain == lfo + 1
            IN [b EXCEPT !.graph = @ \cup
                           {Node(lfo, "OscillatorNode", TRUE, {lfoGain}),
                            Node(lfoGain, "GainNode", FALSE, {BusGainParam})},
                         !.nodes = @ \o <<lfo, lfoGain>>]
       [] genre = "AmbientSynth" ->
            LET b == playOsc(playOsc(playOsc(level)))
                filter == NewId(b)
            IN [b EXCEPT !.graph = SetOut(@, b.gain.node, {filter}) \cup
                           {Node(filter, "BiquadFilterNode", FALSE, {destination})},
                         !.nodes = @ \o <<filter>>]
       [] genre = "NatureSounds" -> playNoise(playNoise(level))
       [] genre = "LoFi" -> playOsc(playOsc(playOsc(playOsc(playNoise(level)))))
       [] OTHER -> a

\* playAmbience(ctx, genre, destination): the bus gain is created, connected
\* to the destination and pushed; the genre's sources are built; the fade-in
\* is scheduled on the bus gain from 0 at `time` to its level 2 s later.
playAmbience(a, genre, destination) ==
  LET gain == NewId(a)
      a0 == [a EXCEPT !.graph = @ \cup {Node(gain, "GainNode", FALSE, {destination})},
                      !.nodes = <<gain>>,
                      !.gain = [node |-> gain, value |-> UnitGain, events |-> <<>>]]
      a1 == genreCase(a0, genre, destination)
      originalGain == a1.gain.value
  IN [a1 EXCEPT !.gain = linearRampToValueAtTime(setValueAtTime(@, 0, a.time),
                                                 originalGain, a.time + FadeInTicks),
                !.log.start = a.time]

\* Faulty variant of stop(): the pending automation is not cancelled.
stopNoCancel(a) ==
  [a EXCEPT !.gain = linearRampToValueAtTime(
                       setValueAtTime(@, @.value, a.time),
                       0, a.time + FadeOutTicks),
            !.timers = Append(@, a.time + TeardownTicks),
            !.log.stops = Append(@, a.time)]

\* The controller's stop(): cancel the pending automation, pin the gain at
\* the value it has, ramp to 0 within 1 s, and arm the teardown timer.  (The
\* early return on a closed context is never taken: no code of the
\* application closes a context it hands to playAmbience before stop().)
stop(a) ==
  [a EXCEPT !.gain = linearRampToValueAtTime(
                       setValueAtTime(cancelScheduledValues(@, a.time),
                                      @.value, a.time),
                       0, a.time + FadeOutTicks),
            !.timers = Append(@, a.time + TeardownTicks),
            !.log.stops = Append(@, a.time)]

IsSource(n) == n.kind \in {"AudioBufferSourceNode", "OscillatorNode"}

\* The timer callback of stop(): for each node of `nodes`, inside one try
\* block, stop() it if it is a source and disconnect() it.  stop() throws on
\* a source that was never started, and then its disconnect is skipped.
teardown(a) ==
  LET pushed == { a.nodes[i] : i \in 1..Len(a.nodes) }
  IN [a EXCEPT !.graph = { IF n.id \in pushed /\ ~(IsSource(n) /\ ~n.started)
                             THEN [n EXCEPT !.stopped = IsSource(n), !.out = {}]
                             ELSE n : n \in @ },
               !.timers = Tail(@),
               !.log.fired = @ + 1]

AmbCommit(a) ==
  /\ ambGraph' = a.graph
  /\ ambNodes' = a.nodes
  /\ ambGain' = a.gain
  /\ ambTimers' = a.timers
  /\ ambLog' = a.log

PlayAmbience ==
  /\ ambGenre = NotCalled
  /\ \E genre \in Genres :
       /\ ambGenre' = genre
       /\ AmbCommit(playAmbience(AmbCur, genre, Destination))
  /\ UNCHANGED <<ambTime, ambOthers>>

StopAmbience ==
  /\ ambGenre # NotCalled
  /\ Len(ambLog.stops) < MaxStops
  /\ AmbCommit(stop(AmbCur))
  /\ UNCHANGED <<ambTime, ambGenre, ambOthers>>

\* The host runs the oldest teardown timer once its delay has elapsed.
AmbTeardown ==
  /\ ambTimers # <<>>
  /\ Head(ambTimers) <= ambTime
  /\ AmbCommit(teardown(AmbCur))
  /\ UNCHANGED <<ambTime, ambGenre, ambOthers>>

\* The context renders on: its clock advances and the bus gain's value
\* follows its timeline.
AmbClockAdvance ==
  /\ \E d \in AmbSteps :
       /\ ambTime + d <= MaxAmbTime
       /\ ambTime' = ambTime + d
       /\ ambGain' = [ambGain EXCEPT !.value = ValueAt(ambGain, ambTime + d)]
  /\ UNCHANGED <<ambGenre, ambGraph, ambNodes, ambTimers, ambLog, ambOthers>>

AmbNext == PlayAmbience \/ StopAmbience \/ AmbTeardown \/ AmbClockAdvance

AmbInit ==
  PlayerRest /\ AmbRest /\ RenderRest /\ LiveRest /\ CodecRest /\ AppRest
  /\ VideoRest

SpecAmb == AmbInit /\ [][AmbNext]_vars
\* ------------------------------------------------------ claims: ambience

Last(q) == q[Len(q)]
Event(kind, value, time) == [kind |-> kind, value |-> value, time |-> time]

\* C13 (as claimed): playAmbience with NoMusic creates no node, connects
\* nothing to the destination and schedules no gain automation, and its
\* stop() does nothing.
C13_NoMusicBuildsNothing ==
  ambGenre = "NoMusic" =>
    /\ ambGraph = {}
    /\ ambNodes = <<>>
    /\ ambGain.events = <<>>
    /\ ambTimers = <<>> /\ ambLog.fired = 0

\* C14: for every genre, once a teardown callback of stop() has run, every
\* node the call created is disconnected and every oscillator and buffer
\* source is stopped; a second stop() and its callback leave it so.
C14_StopTwiceTearsDown ==
  ambLog.fired >= 1 =>
    \A n \in ambGraph : n.out = {} /\ (IsSource(n) => n.started /\ n.stopped)

\* C14 witness: stop() was called twice on a genre with oscillators and a
\* noise source, and both teardown callbacks have run.
C14_Witness ==
  /\ ambGenre = "LoFi"
  /\ Len(ambLog.stops) = 2 /\ ambLog.fired = 2 /\ ambTimers = <<>>
  /\ Cardinality({ n \in ambGraph : IsSource(n) /\ n.stopped }) = 5
  /\ \A n \in ambGraph : n.out = {}

\* C15: for a non-silent genre started at t, until stop() the bus gain's
\* timeline is 0 at t and a linear ramp to the genre's level (0.3, 0.2, 0.15
\* or 0.25) ending at t + 2 s, which never decreases.  stop() at s removes
\* the events at or after s, pins the gain at the value it has and ramps to
\* 0 ending at s + 1 s: from s on the scheduled gain never increases.
C15_FadeInFadeOut ==
  [][ (ambGenre' \notin {NotCalled, "NoMusic"}) =>
        LET g == ambGain'
            t == ambLog'.start
            n == Len(g.events)
        IN IF ambLog'.stops = <<>>
             THEN /\ g.events = <<Event("set", 0, t),
                                   Event("ramp", GenreGain(ambGenre'), t + FadeInTicks)>>
                  /\ GenreGain(ambGenre') \in {300000, 200000, 150000, 250000}
                  /\ ValueAt(g, t) = 0
                  /\ ValueAt(g, t + FadeInTicks) = GenreGain(ambGenre')
                  /\ \A x \in t..(t + FadeInTicks) : ValueAt(g, x) <= ValueAt(g, x + 1)
             ELSE LET s == Last(ambLog'.stops)
                  IN /\ n >= 2
                     /\ g.events[n] = Event("ramp", 0, s + FadeOutTicks)
                     /\ g.events[n - 1].kind = "set" /\ g.events[n - 1].time = s
                     /\ \A i \in 1..(n - 2) : g.events[i].time < s
                     /\ ValueAt(g, s + FadeOutTicks) = 0
                     /\ \A x \in s..(s + FadeOutTicks) : ValueAt(g, x) >= ValueAt(g, x + 1)
                     /\ ambLog'.stops # ambLog.stops =>
                           /\ g.events[n - 1].value = ambGain.value
                           /\ ambTime > t => ValueAt(g, s) = ValueAt(ambGain, s)
    ]_vars

\* C15 witness: stop() was called half-way through the fade-in, and a second
\* time half-way through the fade-out.
C15_Witness ==
  /\ ambGenre = "TibetanBowls"
  /\ Len(ambLog.stops) = 2
  /\ ambLog.stops[1] = ambLog.start + 10
  /\ ambLog.stops[2] = ambLog.stops[1] + 5
  /\ ambGain.events[2] = Event("set", 150000, ambLog.stops[1])
  /\ Last(ambGain.events) = Event("ramp", 0, ambLog.stops[2] + FadeOutTicks)
  /\ ambGain.events[3] = Event("set", 75000, ambLog.stops[2])

\* C23: once stop() has been called at s, the graph is left alone until the
\* fade-out that stop() scheduled has ended: a step that stops a source or
\* disconnects a node is taken strictly after s + 1 s, for every stop().
C23_TeardownAfterFade ==
  [][ (ambGenre # NotCalled /\ ambGraph' # ambGraph) =>
        \A i \in 1..Len(ambLog.stops) :
          ambTime > ambLog.stops[i] + FadeOutTicks
    ]_vars

\* ------------------------------------------------- host: double arithmetic

\* A natural number of any size is the sequence of its digits in base
\* 2^15, least significant first, without leading zeros.
Base == 2 ^ LimbBits

RECURSIVE Trim(_)
Trim(a) == IF a # <<>> /\ a[Len(a)] = 0 THEN Trim(SubSeq(a, 1, Len(a) - 1)) ELSE a
Limbs(n) == Trim(<<n % Base, (n \div Base) % Base, n \div (Base * Base)>>)
\* The number a stands for, when it is below 2^30.
Val(a) == (IF Len(a) >= 1 THEN a[1] ELSE 0) + (IF Len(a) >= 2 THEN Base * a[2] ELSE 0)
Limb(a, i) == IF i >= 1 /\ i <= Len(a) THEN a[i] ELSE 0

RECURSIVE AddFrom(_, _, _, _)
AddFrom(a, b, i, carry) ==
  IF i > Len(a) /\ i > Len(b)
    THEN (IF carry = 1 THEN <<1>> ELSE <<>>)
    ELSE LET t == Limb(a, i) + Limb(b, i) + carry
         IN <<t % Base>> \o AddFrom(a, b, i + 1, t \div Base)
Add(a, b) == AddFrom(a, b, 1, 0)

\* a * n and floor(a / n) with the remainder, for 0 < n < 2^16.
RECURSIVE MulFrom(_, _, _, _)
MulFrom(a, n, i, carry) ==
  IF i > Len(a) THEN Limbs(carry)
  ELSE LET t == a[i] * n + carry
       IN <<t % Base>> \o MulFrom(a, n, i + 1, t \div Base)
Mul(a, n) == Trim(MulFrom(a, n, 1, 0))
RECURSIVE DivFrom(_, _, _, _, _)
DivFrom(a, n, i, rem, q) ==
  IF i = 0 THEN [q |-> Trim(q), rem |-> rem]
  ELSE LET r == Base * rem + a[i]
       IN DivFrom(a, n, i - 1, r % n, <<r \div n>> \o q)
Div(a, n) == DivFrom(a, n, Len(a), 0, <<>>)

\* The number of binary digits of a, a * 2^k, and floor(a / 2^k) together
\* with whether a non-zero part was cut off.
BitLen(a) ==
  IF a = <<>> THEN 0
  ELSE LimbBits * (Len(a) - 1)
         + CHOOSE k \in 1..LimbBits : 2 ^ (k - 1) <= a[Len(a)] /\ a[Len(a)] < 2 ^ k
Shl(a, k) ==
  IF a = <<>> THEN a
  ELSE [i \in 1..(k \div LimbBits) |-> 0] \o Mul(a, 2 ^ (k % LimbBits))
Shr(a, k) ==
  LET whole == k \div LimbBits
      d == Div(SubSeq(a, whole + 1, Len(a)), 2 ^ (k % LimbBits))
  IN [q |-> d.q,
      cut |-> d.rem # 0 \/ \E i \in 1..whole : Limb(a, i) # 0]

\* A non-negative double is m * 2^e with m of at most 53 binary digits.
\* Round(a, sticky, e) is the double nearest to (a + f) * 2^e, ties to even,
\* where 0 <= f < 1 and f > 0 exactly if `sticky`; a is 0 or has more than
\* 53 digits.
Round(a, sticky, e) ==
  IF BitLen(a) <= MantissaBits THEN [m |-> a, e |-> e]
  ELSE LET drop == BitLen(a) - MantissaBits
           t == Shr(a, drop - 1)
           guard == t.q[1] % 2
           kept == Div(t.q, 2).q
           up == guard = 1 /\ (sticky \/ t.cut \/ kept[1] % 2 = 1)
       IN [m |-> IF up THEN Add(kept, <<1>>) ELSE kept, e |-> e + drop]

\* x / n, x + n and x * n in double arithmetic, for naturals x, n.
FDivNat(x, n) ==
  LET d == Div(Shl(Limbs(x), LimbBits * GuardLimbs), n)
  IN Round(d.q, d.rem # 0, 0 - LimbBits * GuardLimbs)
FAddNat(x, n) ==
  IF x.e >= 0 THEN Round(Add(Shl(x.m, x.e), Limbs(n)), FALSE, 0)
  ELSE Round(Add(x.m, Shl(Limbs(n), 0 - x.e)), FALSE, x.e)
FMulNat(x, n) == Round(Mul(x.m, n), FALSE, x.e)
\* The conversion of a double to an `unsigned long` argument: truncation.
Trunc(x) == IF x.e >= 0 THEN Val(Shl(x.m, x.e)) ELSE Val(Shr(x.m, 0 - x.e).q)

\* ------------------------------------------------------ renderSessionToWav

\* voiceBuffer.length, in frames.
VoiceFrames(in) == (in.voiceTicks * in.sampleRate) \div TicksPerSecond

\* The `length` argument of the OfflineAudioContext: duration * sampleRate
\* with duration = voiceBuffer.duration + 2 and voiceBuffer.duration =
\* length / sampleRate, all three in double arithmetic, then truncated.
RenderLength(in) ==
  Trunc(FMulNat(FAddNat(FDivNat(VoiceFrames(in), in.sampleRate), TailSeconds),
                in.sampleRate))

\* The synchronous part of renderSessionToWav, up to startRendering(), for
\* a genre that `hasMusic`: the context, the voice path, and the music path
\* with the fade-out scheduled on the gain node playAmbience returned.
renderGraph(in, hasMusic) ==
  LET renderDuration == in.voiceTicks + TailTicks
      voiceSrc == 1
      voiceGain == voiceSrc + 1
      musicMasterGain == voiceGain + 1
      voice == { Node(voiceSrc, "AudioBufferSourceNode", TRUE, {voiceGain})
                   @@ [when |-> 0],
                 Node(voiceGain, "GainNode", FALSE, {Destination}) }
      a == playAmbience(
             [time |-> 0,
              graph |-> voice \cup {Node(musicMasterGain, "GainNode", FALSE,
                                        {Destination})},
              nodes |-> <<>>, gain |-> NoBus, timers |-> <<>>,
              log |-> [start |-> 0, stops |-> <<>>, fired |-> 0]],
             in.genre, musicMasterGain)
  IN [ctx |-> [numberOfChannels |-> RenderChannels,
               length |-> RenderLength(in),
               sampleRate |-> in.sampleRate],
      graph |-> IF hasMusic THEN a.graph ELSE voice,
      levels |-> {[node |-> voiceGain, value |-> in.voiceVolume]} \cup
                 (IF hasMusic
                    THEN {[node |-> musicMasterGain, value |-> in.musicVolume]}
                    ELSE {}),
      bus |-> IF hasMusic
                THEN linearRampToValueAtTime(
                       setValueAtTime(a.gain, a.gain.value, renderDuration - TailTicks),
                       0, renderDuration)
                ELSE NoBus]

\* Faulty variant of renderSetup: the music path is built for every genre.
renderSetupAlwaysMusic(in) == renderGraph(in, TRUE)

\* renderSetup: the music path is built unless the genre is NoMusic.
renderSetup(in) == renderGraph(in, in.genre # "NoMusic")

RenderSetup ==
  /\ rndPhase = "idle"
  /\ rndPhase' = "rendering"
  /\ LET r == renderSetup(rndIn)
     IN /\ rndCtx' = r.ctx
        /\ rndGraph' = r.graph
        /\ rndLevels' = r.levels
        /\ rndBus' = r.bus
  /\ UNCHANGED <<rndIn, rndOut, rndOthers>>

\* startRendering() resolves with a buffer of the context's shape, which is
\* handed to audioBufferToWav.
RenderComplete ==
  /\ rndPhase = "rendering"
  /\ rndPhase' = "rendered"
  /\ rndOut' = rndCtx
  /\ UNCHANGED <<rndIn, rndCtx, rndGraph, rndLevels, rndBus, rndOthers>>

RenderNext == RenderSetup \/ RenderComplete

RenderInit ==
  /\ PlayerRest
  /\ AmbRest
  /\ LiveRest
  /\ CodecRest
  /\ AppRest
  /\ VideoRest
  /\ rndIn \in [voiceTicks : VoiceTicks, sampleRate : SampleRates,
                 genre : Genres, musicVolume : MixVolumes,
                 voiceVolume : MixVolumes]
  /\ RenderStart

SpecRender == RenderInit /\ [][RenderNext]_vars

\* ------------------------------------------ claims: renderSessionToWav

\* C16 (as claimed): the rendered buffer has 2 channels, the voice buffer's
\* sample rate and the frames of the voice duration plus exactly 2 s,
\* whatever the genre.
C16_RenderLength ==
  rndPhase = "rendered" =>
    /\ rndOut.numberOfChannels = 2
    /\ rndOut.sampleRate = rndIn.sampleRate
    /\ rndOut.length * TicksPerSecond
         = (rndIn.voiceTicks + TailTicks) * rndIn.sampleRate

\* The voice path: the source, started at time 0, feeds a gain at voiceVolume
\* that feeds the destination.
VoicePath ==
  { Node(1, "AudioBufferSourceNode", TRUE, {2}) @@ [when |-> 0],
    Node(2, "GainNode", FALSE, {Destination}) }

LiveCur ==
  [connect |-> connectPhase, streamRef |-> streamRef,
   inputSourceRef |-> inputSourceRef, processorRef |-> processorRef,
   sessionRef |-> sessionRef, host |-> liveHost,
   isConnected |-> isConnected, isTalking |-> isTalking,
   nextStartTimeRef |-> nextStartTimeRef, sourcesRef |-> sourcesRef,
   nodes |-> liveNodes, pending |-> livePending, session |-> liveSession,
   log |-> liveLog]

\* The server messages: inline audio of some duration (0: none), and the
\* turnComplete and interrupted flags of serverContent.
Messages == [data : {0} \cup ChunkDurations, turnComplete : BOOLEAN,
             interrupted : BOOLEAN]

\* Faulty variant of playAudioBuffer: every chunk starts at the current time.
playAudioBufferNoQueue(l, d) ==
  LET id == Len(l.log.sched) + 1
      startTime == liveTime
  IN [l EXCEPT !.nodes = @ \cup {[id |-> id, start |-> startTime, duration |-> d,
                                  stopped |-> FALSE, ended |-> FALSE]},
               !.nextStartTimeRef = startTime + d,
               !.sourcesRef = @ \cup {id},
               !.log.sched = Append(@, [start |-> startTime, duration |-> d,
                                        clock |-> liveTime,
                                        epoch |-> l.log.flushes])]

\* playAudioBuffer: a new source is started at the later of the current time
\* and nextStartTimeRef, which then moves to the end of this buffer; the
\* source is added to the set.
playAudioBuffer(l, d) ==
  LET id == Len(l.log.sched) + 1
      startTime == Max(liveTime, l.nextStartTimeRef)
  IN [l EXCEPT !.nodes = @ \cup {[id |-> id, start |-> startTime, duration |-> d,
                                  stopped |-> FALSE, ended |-> FALSE]},
               !.nextStartTimeRef = startTime + d,
               !.sourcesRef = @ \cup {id},
               !.log.sched = Append(@, [start |-> startTime, duration |-> d,
                                        clock |-> liveTime,
                                        epoch |-> l.log.flushes])]

\* stopAllAudio: stop every source of the set, clear the set, reset the
\* pointer, setIsTalking(false).
stopAllAudio(l) ==
  [l EXCEPT !.nodes = { IF n.id \in l.sourcesRef
                          THEN [n EXCEPT !.stopped = TRUE] ELSE n : n \in @ },
            !.sourcesRef = {},
            !.nextStartTimeRef = 0,
            !.isTalking = FALSE,
            !.log.flushes = @ + 1]

\* onmessage after its audio, if any, was handled.
afterAudio(l, msg) ==
  LET l1 == IF msg.turnComplete THEN [l EXCEPT !.isTalking = FALSE] ELSE l
  IN IF msg.interrupted
       THEN [stopAllAudio(l1) EXCEPT !.log.interrupts = @ + 1]
       ELSE l1

\* onmessage up to its await: with audio, setIsTalking(true) and the decoding
\* is awaited; without, the rest of the handler runs at once.
onmessage(l, msg) ==
  IF msg.data # 0
    THEN [l EXCEPT !.isTalking = TRUE,
                   !.pending = Append(@, [msg |-> msg,
                                          received |-> l.log.interrupts])]
    ELSE afterAudio(l, msg)

\* onmessage from its await on: the decoded buffer is scheduled.  The log
\* notes a chunk that was received before an interruption handled since.
decoded(l) ==
  LET p == Head(l.pending)
      id == Len(l.log.sched) + 1
      l1 == playAudioBuffer([l EXCEPT !.pending = Tail(@)], p.msg.data)
      l2 == IF p.received < l.log.interrupts
              THEN [l1 EXCEPT !.log.late = @ \cup {id}] ELSE l1
  IN afterAudio(l2, p.msg)

\* source.onended of the source with this id.
onended(l, id) ==
  LET l1 == [l EXCEPT !.sourcesRef = @ \ {id},
                      !.nodes = { IF n.id = id THEN [n EXCEPT !.ended = TRUE]
                                  ELSE n : n \in @ }]
  IN IF l1.sourcesRef = {} THEN [l1 EXCEPT !.isTalking = FALSE] ELSE l1

\* The four releases of cleanup, each guarded by its ref.
releaseProcessor(l) ==
  IF l.processorRef # Null
    THEN [l EXCEPT !.host.processor = "disconnected",
                   !.host.processorDisconnects = @ + 1,
                   !.processorRef = Null]
    ELSE l

releaseInputSource(l) ==
  IF l.inputSourceRef # Null
    THEN [l EXCEPT !.host.inputSource = "disconnected",
                   !.host.inputSourceDisconnects = @ + 1,
                   !.inputSourceRef = Null]
    ELSE l

\* Faulty variant of releaseStream: the ref is not reset.
releaseStreamKeepsRef(l) ==
  IF l.streamRef # Null
    THEN [l EXCEPT !.host.mic = "stopped", !.host.micStops = @ + 1]
    ELSE l

releaseStream(l) ==
  IF l.streamRef # Null
    THEN [l EXCEPT !.host.mic = "stopped", !.host.micStops = @ + 1,
                   !.streamRef = Null]
    ELSE l

\* sessionRef.current.then(s => s.close()): an open session starts closing;
\* one still opening is closed as soon as its promise resolves, after onopen.
releaseSession(l) ==
  IF l.sessionRef # Null
    THEN [l EXCEPT !.host.closes = @ + 1,
                   !.session = IF @ = "open" THEN "closing" ELSE @,
                   !.sessionRef = Null]
    ELSE l

\* cleanup: setIsConnected(false), stopAllAudio(), the four releases.
cleanup(l) ==
  LET l1 == [stopAllAudio(l) EXCEPT !.isConnected = FALSE,
                                    !.log.cleanups = @ + 1]
  IN releaseSession(releaseStream(releaseInputSource(releaseProcessor(l1))))

\* connect() up to its await of getUserMedia.
connect(l) == [l EXCEPT !.connect = "awaitMic"]

\* connect() from the microphone stream on: the stream is kept, the session
\* is requested and its promise stored.
micGranted(l) ==
  [l EXCEPT !.streamRef = 1, !.host.mic = "live", !.session = "opening",
            !.sessionRef = 1, !.connect = "awaitOpen"]

\* connect()'s catch block.
micDenied(l) == [cleanup(l) EXCEPT !.connect = "failed"]

\* onopen: setIsConnected(true), the capture nodes are built on the stream
\* connect() obtained and stored in their refs.
onopen(l) ==
  [l EXCEPT !.isConnected = TRUE,
            !.host.inputSource = "connected", !.host.processor = "connected",
            !.inputSourceRef = 1, !.processorRef = 1,
            !.session = IF l.host.closes > 0 THEN "closing" ELSE "open",
            !.connect = "done"]

\* onclose: cleanup(); the connection is gone.
onclose(l) ==
  [cleanup(l) EXCEPT !.session = "closed",
                     !.connect = IF @ = "awaitOpen" THEN "failed" ELSE @]

LiveCommit(l) ==
  /\ connectPhase' = l.connect
  /\ streamRef' = l.streamRef
  /\ inputSourceRef' = l.inputSourceRef
  /\ processorRef' = l.processorRef
  /\ sessionRef' = l.sessionRef
  /\ liveHost' = l.host
  /\ isConnected' = l.isConnected
  /\ isTalking' = l.isTalking
  /\ nextStartTimeRef' = l.nextStartTimeRef
  /\ sourcesRef' = l.sourcesRef
  /\ liveNodes' = l.nodes
  /\ livePending' = l.pending
  /\ liveSession' = l.session
  /\ liveLog' = l.log

\* The user starts the conversation: connect().
LiveConnect ==
  /\ connectPhase = "idle"
  /\ LiveCommit(connect(LiveCur))
  /\ UNCHANGED <<liveTime, liveOthers>>

\* getUserMedia settles.
LiveMic ==
  /\ connectPhase = "awaitMic"
  /\ \E granted \in BOOLEAN :
       LiveCommit(IF granted THEN micGranted(LiveCur) ELSE micDenied(LiveCur))
  /\ UNCHANGED <<liveTime, liveOthers>>

LiveOpened ==
  /\ liveSession = "opening"
  /\ LiveCommit(onopen(LiveCur))
  /\ UNCHANGED <<liveTime, liveOthers>>

\* A server message arrives while the connection is not closed.
LiveMessage ==
  /\ liveSession \in {"open", "closing"}
  /\ \E msg \in Messages :
       /\ msg.data # 0 => Len(liveLog.sched) + Len(livePending) < MaxChunks
       /\ msg.interrupted => liveLog.flushes < MaxFlushes
       /\ LiveCommit(onmessage(LiveCur, msg))
  /\ UNCHANGED <<liveTime, liveOthers>>

LiveDecoded ==
  /\ livePending # <<>>
  /\ LiveCommit(decoded(LiveCur))
  /\ UNCHANGED <<liveTime, liveOthers>>

\* The host reports the end of a source that played out or was stopped.
LiveEnded ==
  /\ \E n \in liveNodes :
       /\ ~n.ended
       /\ n.stopped \/ liveTime >= n.start + n.duration
       /\ LiveCommit(onended(LiveCur, n.id))
  /\ UNCHANGED <<liveTime, liveOthers>>

\* The user leaves: disconnect().
LiveDisconnect ==
  /\ liveLog.flushes < MaxFlushes
  /\ LiveCommit([cleanup(LiveCur) EXCEPT
                   !.log.disconnected = @ \/ connectPhase # "idle"])
  /\ UNCHANGED <<liveTime, liveOthers>>

\* The connection reports an error: onerror runs cleanup().
LiveError ==
  /\ liveSession \in {"opening", "open", "closing"}
  /\ liveLog.flushes < MaxFlushes
  /\ LiveCommit(cleanup(LiveCur))
  /\ UNCHANGED <<liveTime, liveOthers>>

\* The connection closes, on request or by itself: onclose runs cleanup().
LiveClosed ==
  /\ liveSession \in {"opening", "open", "closing"}
  /\ LiveCommit(onclose(LiveCur))
  /\ UNCHANGED <<liveTime, liveOthers>>

LiveClockAdvance ==
  /\ liveTime < MaxLiveTime
  /\ liveTime' = liveTime + 1
  /\ UNCHANGED <<connectPhase, streamRef, inputSourceRef, processorRef,
                 sessionRef, liveHost, isConnected, isTalking,
                 nextStartTimeRef, sourcesRef, liveNodes, livePending,
                 liveSession, liveLog, liveOthers>>

LiveNext ==
  \/ LiveConnect
  \/ LiveMic
  \/ LiveOpened
  \/ LiveMessage
  \/ LiveDecoded
  \/ LiveEnded
  \/ LiveDisconnect
  \/ LiveError
  \/ LiveClosed
  \/ LiveClockAdvance

LiveInit ==
  PlayerRest /\ AmbRest /\ RenderRest /\ LiveRest /\ CodecRest /\ AppRest
  /\ VideoRest

SpecLive == LiveInit /\ [][LiveNext]_vars

\* ------------------------------------------------- claims: live session

\* C18 (as claimed): each chunk starts no earlier than the clock value read
\* when it was scheduled, and no earlier than the end of the chunk scheduled
\* before it.
C18_QueueNeverOverlaps ==
  LET q == liveLog.sched
  IN /\ \A i \in 1..Len(q) : q[i].start >= q[i].clock
     /\ \A i \in 1..(Len(q) - 1) : q[i + 1].start >= q[i].start + q[i].duration

\* C18 (amended): each chunk starts no earlier than the clock value read when
\* it was scheduled; it starts no earlier than the end of the chunk scheduled
\* before it unless stopAllAudio ran in between, and then it starts at the
\* clock value.
C18_QueueNeverOverlapsUntilFlushed ==
  LET q == liveLog.sched
  IN /\ \A i \in 1..Len(q) : q[i].start >= q[i].clock
     /\ \A i \in 1..(Len(q) - 1) :
          IF q[i + 1].epoch = q[i].epoch
            THEN q[i + 1].start >= q[i].start + q[i].duration
            ELSE q[i + 1].start = q[i + 1].clock

\* C18 witness: the second chunk was scheduled while the first, scheduled a
\* second before, was still playing: it starts when the first ends.
C18_Witness ==
  LET q == liveLog.sched
  IN /\ Len(q) = 2 /\ liveLog.flushes = 0
     /\ q[1].clock < q[2].clock
     /\ q[2].clock < q[1].start + q[1].duration
     /\ q[2].start = q[1].start + q[1].duration

\* A response source that is scheduled or still playing.
Active(n) == ~n.stopped /\ ~n.ended /\ liveTime < n.start + n.duration

\* C24: isTalking is true whenever a response source is scheduled or still
\* playing.
C24_TalkingWhilePlaying == (\E n \in liveNodes : Active(n)) => isTalking

\* C26: once an 'interrupted' message has been handled, no response chunk
\* received before it is playing or scheduled, a chunk whose decoding was
\* awaited at that moment included.
C26_InterruptDiscards ==
  \A n \in liveNodes : n.id \in liveLog.late => ~Active(n)

\* Nothing of connect() is in flight any more: getUserMedia has settled, and
\* the session has neither its opening nor a requested close outstanding.
ConnectSettled ==
  /\ connectPhase \in {"done", "failed"}
  /\ liveSession \notin {"opening", "closing"}

Released ==
  /\ streamRef = Null
  /\ liveHost.mic # "live"
  /\ liveHost.processor # "connected"
  /\ liveSession # "open"
  /\ ~isConnected

\* C27: once disconnect() was called after connect(), and connect()'s steps
\* have all completed, no microphone stream is held, no capture processor is
\* connected, no session is open and isConnected is false.
C27_DisconnectReleases ==
  (liveLog.disconnected /\ ConnectSettled) => Released

\* C28: after every run of cleanup, from disconnect, onclose, onerror or the
\* failed connect, isConnected and isTalking are false, the set of sources
\* is empty, the pointer is 0, the four refs are null and the microphone is
\* not live; no resource has been released more than once.
C28_CleanupIdempotent ==
  [][ liveLog'.cleanups > liveLog.cleanups =>
        /\ ~isConnected' /\ ~isTalking'
        /\ sourcesRef' = {} /\ nextStartTimeRef' = 0
        /\ processorRef' = Null /\ inputSourceRef' = Null
        /\ streamRef' = Null /\ sessionRef' = Null
        /\ liveHost'.mic # "live"
        /\ liveHost'.micStops <= 1 /\ liveHost'.closes <= 1
        /\ liveHost'.processorDisconnects <= 1
        /\ liveHost'.inputSourceDisconnects <= 1 ]_vars

\* cleanup has run again after a run that released all four resources.
C28_Witness ==
  /\ liveLog.cleanups >= 2
  /\ liveHost.micStops = 1 /\ liveHost.closes = 1
  /\ liveHost.processorDisconnects = 1 /\ liveHost.inputSourceDisconnects = 1
  /\ liveSession = "closed"

\* ------------------------------------------------------- the waveform codec
\* Samples are integers in units of 1 / SampleDen, so that both k / 32767 and
\* k / 32768 are exact.
SampleDen == Int16Max * PcmDivisor

\* clamp(sample, -1, 1)
clampSample(n) ==
  IF n > SampleDen THEN SampleDen
  ELSE IF n < -SampleDen THEN -SampleDen
  ELSE n

\* round(clamp(sample, -1, 1) * 32767), with Math.round's ties towards
\* +Infinity.  sample * 32767 is n / PcmDivisor.
encodeSample(n) == (clampSample(n) + PcmDivisor \div 2) \div PcmDivisor

\* encode(buffer): the header fields and the interleaved 16-bit samples.
audioBufferToWav(b) ==
  [headerBytes |-> WavHeaderBytes,
   numChannels |-> b.channels,
   sampleRate |-> b.sampleRate,
   bitsPerSample |-> BitsPerSample,
   byteRate |-> b.sampleRate * b.channels * (BitsPerSample \div 8),
   dataBytes |-> b.frames * b.channels * (BitsPerSample \div 8),
   samples |-> [k \in 1 .. b.frames * b.channels |->
                  encodeSample(b.data[((k - 1) % b.channels) + 1]
                                     [((k - 1) \div b.channels) + 1])]]

\* Faulty variant of decodeAudioData: reads the payload as planar, one
\* channel after the other.
decodeAudioDataPlanar(dataInt16, scale, sampleRate, numChannels) ==
  LET frameCount == Len(dataInt16) \div numChannels
  IN [channels |-> numChannels,
      frames |-> frameCount,
      sampleRate |-> sampleRate,
      data |-> [channel \in 1 .. numChannels |->
                  [i \in 1 .. frameCount |->
                     dataInt16[(channel - 1) * frameCount + i]
                       * (SampleDen \div scale)]]]

\* decodeAudioData: 16-bit integers to floats, dataInt16[i * numChannels +
\* channel] / scale.  The repository's decoder divides by 32768; a decoder
\* that inverts the encoder's scale divides by 32767.
decodeAudioData(dataInt16, scale, sampleRate, numChannels) ==
  LET frameCount == Len(dataInt16) \div numChannels
  IN [channels |-> numChannels,
      frames |-> frameCount,
      sampleRate |-> sampleRate,
      data |-> [channel \in 1 .. numChannels |->
                  [i \in 1 .. frameCount |->
                     dataInt16[(i - 1) * numChannels + channel]
                       * (SampleDen \div scale)]]]

PcmScales == {Int16Max, PcmDivisor}

Buffers ==
  UNION {UNION {{[channels |-> c, frames |-> f, sampleRate |-> r, data |-> d] :
                   d \in [1 .. c -> [1 .. f -> SampleNums]], r \in SampleRates} :
                f \in {n \in 0 .. MaxFrames : c * n <= MaxSamples}} :
         c \in 1 .. MaxChannels}

CodecEncode ==
  /\ cdcPhase = "idle"
  /\ cdcWav' = audioBufferToWav(cdcIn)
  /\ cdcPhase' = "encoded"
  /\ UNCHANGED <<cdcIn, cdcScale, cdcOut, cdcOthers>>

CodecDecode ==
  /\ cdcPhase = "encoded"
  /\ cdcOut' = decodeAudioData(cdcWav.samples, cdcScale, cdcWav.sampleRate,
                               cdcWav.numChannels)
  /\ cdcPhase' = "decoded"
  /\ UNCHANGED <<cdcIn, cdcScale, cdcWav, cdcOthers>>

CodecNext == CodecEncode \/ CodecDecode

CodecInit ==
  /\ PlayerRest
  /\ AmbRest
  /\ RenderRest
  /\ LiveRest
  /\ AppRest
  /\ VideoRest
  /\ cdcIn \in Buffers
  /\ cdcScale \in PcmScales
  /\ CodecStart

SpecCodec == CodecInit /\ [][CodecNext]_vars

Abs(n) == IF n < 0 THEN -n ELSE n

SameShape ==
  /\ cdcOut.channels = cdcIn.channels
  /\ cdcOut.frames = cdcIn.frames
  /\ cdcOut.sampleRate = cdcIn.sampleRate

\* C19 as stated: after the round trip every sample of the decoded buffer is
\* within 1/32767 of the sample of the input buffer, whatever the channel
\* count and the length.
C19_RoundTripWithinOneStep ==
  cdcPhase = "decoded" =>
    /\ SameShape
    /\ \A ch \in 1 .. cdcIn.channels : \A i \in 1 .. cdcIn.frames :
         Abs(cdcIn.data[ch][i] - cdcOut.data[ch][i]) <= SampleDen \div Int16Max

\* C19, amended: the round trip keeps the shape of the buffer and reproduces
\* every sample, first limited to [-1, 1], within 1/32767 under a decoder
\* that divides by 32767 and within 1.5/32767 under one that divides by 32768.
C19_RoundTripOfClamped ==
  cdcPhase = "decoded" =>
    /\ SameShape
    /\ \A ch \in 1 .. cdcIn.channels : \A i \in 1 .. cdcIn.frames :
         LET err == Abs(clampSample(cdcIn.data[ch][i]) - cdcOut.data[ch][i])
         IN /\ 2 * err <= 3 * (SampleDen \div Int16Max)
            /\ cdcScale = Int16Max => err <= SampleDen \div Int16Max

\* A stereo buffer of two frames whose channels differ, with a sample above
\* full scale and one just below a rounding tie, decoded by the repository's
\* decoder.
C19_Witness ==
  /\ cdcPhase = "decoded"
  /\ cdcScale = PcmDivisor
  /\ cdcIn.channels = 2
  /\ cdcIn.frames = 2
  /\ cdcIn.data[1][1] > SampleDen
  /\ cdcIn.data[1][2] = 0
  /\ cdcIn.data[2][1] < 0
  /\ cdcIn.data[2][2] \in 1 .. SampleDen - 1
  /\ cdcOut.data[2][2] < cdcIn.data[2][2] - SampleDen \div Int16Max

\* --------------------------------------------------------- the application
\* The state the application's handlers read and write.
AppCur ==
  [audioContext |-> audioContext, listening |-> appListening,
   alert |-> appAlert, console |-> appConsole, sessions |-> sessions,
   activeSession |-> activeSession, phase |-> genPhase, loading |-> loading,
   status |-> status, isMounted |-> isMounted, caller |-> genCaller,
   result |-> genResult]

HostConstructors == {"AudioContext", "webkitAudioContext"}

\* getAudioContext: throws when the host has neither constructor.
getAudioContext(host) ==
  IF host = {} THEN [threw |-> TRUE, ctx |-> Null]
  ELSE [threw |-> FALSE, ctx |-> 1]

\* AppContext's initAudio: the error of getAudioContext is caught and logged.
initAudio(a) ==
  IF a.audioContext = Null
  THEN LET r == getAudioContext(hostAudio)
       IN IF r.threw
          THEN [a EXCEPT !.console =
                           @ \cup {"Failed to initialize audio context"}]
          ELSE [a EXCEPT !.audioContext = r.ctx]
  ELSE a

\* handleInteraction: initAudio, then the three listeners are removed.  The
\* effect depends on audioContext, so it registers them again exactly when
\* the state changed.
handleInteraction(a) ==
  LET b == initAudio(a)
  IN [b EXCEPT !.listening = (b.audioContext # a.audioContext)]

\* The promise of generateSession settles: handleGenerate alerts on a
\* rejection, handleSurprise does not await it.
settle(a, outcome) ==
  LET b == [a EXCEPT !.phase = "idle", !.caller = "none", !.result = outcome]
  IN IF a.caller = "handleGenerate" /\ outcome = "rejected"
     THEN [b EXCEPT !.alert = "Something went wrong creating your session. Please try again."]
     ELSE b

\* Faulty variant of finally: loading and status are left as they are.
finallyKeepsLoading(a) == a

\* Faulty variant of finally: the block does not test isMounted.
finallyUnguarded(a) == [a EXCEPT !.loading = FALSE, !.status = ""]

\* generateSession's finally block.
finally(a) ==
  IF a.isMounted THEN [a EXCEPT !.loading = FALSE, !.status = ""] ELSE a

\* generateSession up to its first await.
generateSession(a, caller) ==
  IF a.audioContext = Null
  THEN settle([a EXCEPT !.caller = caller], "rejected")
  ELSE [a EXCEPT !.loading = TRUE,
                 !.status = "Writing your meditation story...",
                 !.phase = "script", !.caller = caller, !.result = "none"]

\* generateSession from the settling of the awaited step to the next await
\* or to the end.
resume(a, ok) ==
  IF ~ok
  THEN settle(finally([a EXCEPT !.console =
                                  @ \cup {"Session generation failed:"}]),
              "rejected")
  ELSE IF ~a.isMounted THEN settle(finally(a), "resolved")
  ELSE IF a.phase = "script"
  THEN [a EXCEPT !.status = "Creating a magical video loop (this takes a moment)...",
                 !.phase = "video"]
  ELSE IF a.phase = "video"
  THEN [a EXCEPT !.status = "Recording the voices...", !.phase = "audio"]
  ELSE settle(finally([a EXCEPT !.sessions = @ + 1,
                                !.activeSession = a.sessions + 1]),
              "resolved")

\* SessionBuilder's handleGenerate.
handleGenerate(a) ==
  IF a.audioContext = Null
  THEN [a EXCEPT !.alert = "Audio not ready. Please click anywhere on the page first."]
  ELSE generateSession(a, "handleGenerate")

\* Dashboard's handleSurprise, through surpriseMe.
handleSurprise(a) ==
  IF a.audioContext = Null
  THEN [a EXCEPT !.alert = "Please tap anywhere to unlock audio first!"]
  ELSE generateSession(a, "handleSurprise")

\* Dashboard's session card: a session with an audio buffer is activated, one
\* loaded from history is not.
clickSession(a, id) ==
  IF id # Null
  THEN [a EXCEPT !.activeSession = id]
  ELSE [a EXCEPT !.alert = "This session was loaded from history. Audio regeneration is not yet supported in this demo."]

\* MeditationPlayer: returns null without a context.
PlayerRenders == activeSession # Null /\ audioContext # Null

AppCommit(a) ==
  /\ audioContext' = a.audioContext
  /\ appListening' = a.listening
  /\ appAlert' = a.alert
  /\ appConsole' = a.console
  /\ sessions' = a.sessions
  /\ activeSession' = a.activeSession
  /\ genPhase' = a.phase
  /\ loading' = a.loading
  /\ status' = a.status
  /\ isMounted' = a.isMounted
  /\ genCaller' = a.caller
  /\ genResult' = a.result
  /\ UNCHANGED <<hostAudio, appHistory, appOthers>>

\* The page runs no script while an alert box is open.
Idle == appAlert = NoAlert

Interaction ==
  /\ Idle
  /\ appListening
  /\ \E event \in {"click", "keydown", "touchstart"} :
       AppCommit(handleInteraction(AppCur))

HandleGenerate ==
  /\ Idle
  /\ isMounted
  /\ genPhase = "idle"
  /\ sessions < MaxSessions
  /\ AppCommit(handleGenerate(AppCur))

HandleSurprise ==
  /\ Idle
  /\ isMounted
  /\ genPhase = "idle"
  /\ sessions < MaxSessions
  /\ AppCommit(handleSurprise(AppCur))

\* generateSession called by a consumer of the hook that does not test the
\* context first.
GenerateSession ==
  /\ Idle
  /\ isMounted
  /\ genPhase = "idle"
  /\ sessions < MaxSessions
  /\ AppCommit(generateSession(AppCur, "direct"))

GenResume ==
  /\ Idle
  /\ genPhase # "idle"
  /\ \E ok \in BOOLEAN : AppCommit(resume(AppCur, ok))

GenUnmount ==
  /\ Idle
  /\ isMounted
  /\ AppCommit([AppCur EXCEPT !.isMounted = FALSE])

ClickSession ==
  /\ Idle
  /\ \E id \in (1 .. sessions) \cup {Null} :
       /\ id = Null => appHistory
       /\ AppCommit(clickSession(AppCur, id))

ClosePlayer ==
  /\ Idle
  /\ activeSession # Null
  /\ AppCommit([AppCur EXCEPT !.activeSession = Null])

AlertDismiss ==
  /\ appAlert # NoAlert
  /\ AppCommit([AppCur EXCEPT !.alert = NoAlert])

AppNext ==
  \/ Interaction
  \/ HandleGenerate
  \/ HandleSurprise
  \/ GenerateSession
  \/ GenResume
  \/ GenUnmount
  \/ ClickSession
  \/ ClosePlayer
  \/ AlertDismiss

AppInit ==
  /\ PlayerRest
  /\ AmbRest
  /\ RenderRest
  /\ LiveRest
  /\ CodecRest
  /\ VideoRest
  /\ hostAudio \in SUBSET HostConstructors
  /\ appHistory \in BOOLEAN
  /\ AppStart

SpecApp == AppInit /\ [][AppNext]_vars

\* The single initialisation attempt has been made and getAudioContext threw.
InitFailed == hostAudio = {} /\ ~appListening

NoCoreOperation ==
  /\ audioContext = Null
  /\ ~PlayerRenders
  /\ genPhase = "idle"
  /\ ~loading
  /\ sessions = 0

\* C20: on a host with neither AudioContext nor webkitAudioContext, once the
\* initialisation has been attempted the error has been raised, a blocking
\* message is on screen, no context is stored, the player renders nothing and
\* generateSession does not run.
C20_NoAudioIsFatalAndShown ==
  InitFailed =>
    /\ "Failed to initialize audio context" \in appConsole
    /\ appAlert # NoAlert
    /\ NoCoreOperation

\* The parts of C20 that do not concern the message.
C20_NoAudioNothingProceeds ==
  /\ InitFailed =>
       "Failed to initialize audio context" \in appConsole /\ NoCoreOperation
  /\ hostAudio = {} => NoCoreOperation

\* The steps generateSession goes through, in their order.
GenOrder == {<<"idle", "script">>, <<"script", "video">>, <<"video", "audio">>,
             <<"script", "idle">>, <<"video", "idle">>, <<"audio", "idle">>}

\* What holds of generateSession whether or not its component is mounted:
\* the steps are awaited in order, a session is added and activated only by
\* the resumption after the third, a failed step rejects the call and adds
\* and activates nothing, and without a context nothing is started.
GenSequenced ==
  /\ [][ /\ genPhase' # genPhase => <<genPhase, genPhase'>> \in GenOrder
         /\ sessions' # sessions =>
              /\ genPhase = "audio" /\ genPhase' = "idle"
              /\ genResult' = "resolved"
              /\ sessions' = sessions + 1 /\ activeSession' = sessions'
         /\ (Idle /\ genPhase # "idle" /\ AppCur' = resume(AppCur, FALSE)) =>
              /\ genResult' = "rejected" /\ genPhase' = "idle"
              /\ sessions' = sessions /\ activeSession' = activeSession
         /\ (Idle /\ genPhase = "audio" /\ isMounted
               /\ AppCur' = resume(AppCur, TRUE)) =>
              sessions' = sessions + 1 /\ genResult' = "resolved" ]_vars
  /\ [](audioContext = Null => ~loading /\ status = "" /\ genPhase = "idle")

\* C29: generateSession awaits script, video and voice in this order and adds
\* and activates a session only after all three; a failed step rejects the
\* call, adds and activates nothing and resets loading and status; without
\* an audio context the call is rejected before loading is set.
C29_StepsThenSession ==
  /\ GenSequenced
  /\ [][ (Idle /\ genPhase # "idle" /\ AppCur' = resume(AppCur, FALSE)) =>
           ~loading' /\ status' = "" ]_vars

\* C29, amended: the same, with loading and status reset on every settling
\* of a call whose component is still mounted.
C29_StepsThenSessionWhileMounted ==
  /\ GenSequenced
  /\ [][ (genPhase # "idle" /\ genPhase' = "idle" /\ isMounted) =>
           ~loading' /\ status' = "" ]_vars

\* After a first session was added, a step of a second call has failed on
\* the mounted component.
C29_Witness ==
  /\ sessions = 1
  /\ isMounted
  /\ genResult = "rejected"
  /\ "Session generation failed:" \in appConsole
  /\ ~loading

\* C30: once the component is unmounted, loading and status are not written
\* and no session is added or activated by generateSession, whichever step
\* was awaited and whether it then succeeds or fails.
C30_NothingAfterUnmount ==
  [][ ~isMounted =>
        /\ loading' = loading /\ status' = status /\ sessions' = sessions
        /\ genPhase' # genPhase => activeSession' = activeSession ]_vars

\* A call was unmounted while it awaited a step that then succeeded: it is
\* over, and loading is as the call had set it.
C30_Witness ==
  /\ ~isMounted
  /\ genPhase = "idle"
  /\ genResult = "resolved"
  /\ loading
  /\ status # ""

\* ------------------------------------------------ the player, played out
\* C21: the stored offset stays within the buffer, also when togglePlay
\* pauses after the clock has passed the end and before the next tick.
C21_OffsetWithinDuration == 0 <= pauseTimeRef /\ pauseTimeRef <= duration

\* The player left alone: the listener issues operations during the first
\* step of the clock and the one after it, and only as long as the clock of
\* the model has room left to play the whole buffer afterwards.
OpsAllowed == currentTime <= ClockStep /\ currentTime + duration <= MaxClock

PlayoutTogglePlay == OpsAllowed /\ TogglePlay

PlayoutSeek == OpsAllowed /\ Seek

PlayoutRestart == OpsAllowed /\ Restart

PlayoutUnmount == OpsAllowed /\ Unmount

PlayoutNext ==
  \/ ClockAdvance
  \/ Loop
  \/ PlayoutTogglePlay
  \/ PlayoutSeek
  \/ PlayoutRestart
  \/ PlayoutUnmount

\* The clock keeps advancing and pending animation frames are delivered.
SpecPlayout ==
  /\ Init
  /\ [][PlayoutNext]_vars
  /\ WF_vars(ClockAdvance)
  /\ WF_vars(Loop)

Finished ==
  /\ ~isPlaying
  /\ pauseTimeRef = 0
  /\ progress = 0
  /\ frames = {}

\* C22: a mounted player that is playing when the last operation has been
\* issued eventually is finished, with no progress tick pending, and stays so.
C22_PlaysOut ==
  /\ (mounted /\ isPlaying /\ ~OpsAllowed) ~> Finished
  /\ [][(~OpsAllowed /\ Finished) => Finished']_vars

\* The loop ended a playback that no operation could touch any more.
C22_Witness ==
  /\ ~OpsAllowed
  /\ op.name = "loop"
  /\ op.wasPlaying
  /\ mounted
  /\ Finished

\* ------------------------------------- services: generateMeditationVideo

Operations == [done : BOOLEAN, uri : BOOLEAN]

VidCur ==
  [phase |-> vidPhase, elapsed |-> vidElapsed, operation |-> vidOperation,
   polls |-> vidPolls, result |-> vidResult]

\* After the loop: the URI with the key appended, or the error.
afterLoop(v) ==
  IF v.operation.uri
    THEN [v EXCEPT !.phase = "returned", !.result = "videoUri&key=API_KEY"]
    ELSE [v EXCEPT !.phase = "raised", !.result = "Video generation failed."]

\* Faulty variant of loopHead: the timeout is raised at 60 s already.
loopHeadAtLimit(v) ==
  IF v.operation.done THEN afterLoop(v)
  ELSE IF v.elapsed >= MaxWaitMs
    THEN [v EXCEPT !.phase = "raised",
                   !.result = "Video generation timed out."]
  ELSE [v EXCEPT !.phase = "sleeping"]

\* while (!operation.done) with the timeout test that opens its body.
loopHead(v) ==
  IF v.operation.done THEN afterLoop(v)
  ELSE IF v.elapsed > MaxWaitMs
    THEN [v EXCEPT !.phase = "raised",
                   !.result = "Video generation timed out."]
  ELSE [v EXCEPT !.phase = "sleeping"]

\* generateVideos has answered: startTime is taken, the loop is entered.
started(v, operation) ==
  loopHead([v EXCEPT !.operation = operation, !.elapsed = 0])

\* getVideosOperation has answered after this latency.
polled(v, operation, latency) ==
  loopHead([v EXCEPT !.operation = operation, !.elapsed = @ + latency,
                     !.polls = @ + 1])

\* A request to the service fails: the error leaves the function.
rejected(v) == [v EXCEPT !.phase = "raised", !.result = "service error"]

VidCommit(v) ==
  /\ vidPhase' = v.phase
  /\ vidElapsed' = v.elapsed
  /\ vidOperation' = v.operation
  /\ vidPolls' = v.polls
  /\ vidResult' = v.result

VidCall ==
  /\ vidPhase = "idle"
  /\ VidCommit([VidCur EXCEPT !.phase = "starting"])
  /\ UNCHANGED vidOthers

VidStarted ==
  /\ vidPhase = "starting"
  /\ \E operation \in Operations : VidCommit(started(VidCur, operation))
  /\ UNCHANGED vidOthers

\* The timer of the poll fires, 5 s after it was set or later.
VidTimer ==
  /\ vidPhase = "sleeping"
  /\ \E late \in TimerLate :
       VidCommit([VidCur EXCEPT !.phase = "polling",
                                !.elapsed = @ + PollMs + late])
  /\ UNCHANGED vidOthers

VidPolled ==
  /\ vidPhase = "polling"
  /\ \E operation \in Operations, latency \in Latencies :
       VidCommit(polled(VidCur, operation, latency))
  /\ UNCHANGED vidOthers

VidRejected ==
  /\ vidPhase \in {"starting", "polling"}
  /\ VidCommit(rejected(VidCur))
  /\ UNCHANGED vidOthers

VidNext == VidCall \/ VidStarted \/ VidTimer \/ VidPolled \/ VidRejected

VidInit ==
  /\ PlayerRest /\ AmbRest /\ RenderRest /\ LiveRest /\ CodecRest /\ AppRest
  /\ VideoRest

\* Every request is answered or fails, and every timer fires.
SpecVideo ==
  /\ VidInit /\ [][VidNext]_vars
  /\ WF_vars(VidStarted \/ VidPolled \/ VidRejected)
  /\ WF_vars(VidTimer)

\* ---------------------------------------------------------- claims: video

Settled == vidPhase \in {"returned", "raised"}

\* The polls that fit: one per 5 s up to 60 s, and one more, since the test
\* lets a poll start at 60 s sharp.
MaxPolls == (MaxWaitMs \div PollMs) + 1

=============================================================================
